---- MODULE Spec2Model ----
(***************************************************************************)
(* Model of the PDF signature backend (backend/server.js): the geometry    *)
(* helpers convertCoordinates and fitImageInBox, and the field loop of     *)
(* POST /sign-pdf.                                                         *)
(*                                                                         *)
(* JavaScript numbers are IEEE-754 binary64 values.  They are modelled     *)
(* bit-exactly: a finite number is a sign, a 53-bit significand and a      *)
(* binary exponent, and every arithmetic operator of the source (product, *)
(* sum, difference, quotient) is the exact operation followed by one      *)
(* round-to-nearest-even; Math.min rounds nothing.                         *)
(* Significands exceed the integers of the model checker, so they   *)
(* are kept as little-endian sequences of 15-bit limbs.  The exponent is   *)
(* unbounded: the magnitudes that occur (page sizes in points, fractions   *)
(* of a page) are far from the overflow and subnormal ranges of binary64.  *)
(* -0 is identified with 0 (they are === in JavaScript).                   *)
(***************************************************************************)
EXTENDS Integers, Sequences, FiniteSets, TLC

\* ------------------------------------------------------------------------
\* Natural numbers of arbitrary size: little-endian limbs, no high zero limb
\* ------------------------------------------------------------------------

LimbBits == 15

Base == 2^LimbBits

Limb(a, i) == IF i <= Len(a) THEN a[i] ELSE 0

MaxOf(m, n) == IF m >= n THEN m ELSE n

MinOf(m, n) == IF m <= n THEN m ELSE n

RECURSIVE BTrim(_)
BTrim(a) ==
  IF a = <<>> THEN a
  ELSE IF a[Len(a)] = 0 THEN BTrim(SubSeq(a, 1, Len(a) - 1)) ELSE a

RECURSIVE BFromInt(_)
BFromInt(n) == IF n = 0 THEN <<>> ELSE <<n % Base>> \o BFromInt(n \div Base)

RECURSIVE BAddRec(_, _, _, _)
BAddRec(a, b, i, c) ==
  IF i > MaxOf(Len(a), Len(b))
  THEN (IF c = 0 THEN <<>> ELSE <<c>>)
  ELSE LET s == Limb(a, i) + Limb(b, i) + c
       IN  <<s % Base>> \o BAddRec(a, b, i + 1, s \div Base)

BAdd(a, b) == BAddRec(a, b, 1, 0)

\* a - b for a >= b
RECURSIVE BSubRec(_, _, _, _)
BSubRec(a, b, i, c) ==
  IF i > Len(a) THEN <<>>
  ELSE LET s == a[i] - Limb(b, i) - c
       IN  IF s < 0 THEN <<s + Base>> \o BSubRec(a, b, i + 1, 1)
                    ELSE <<s>> \o BSubRec(a, b, i + 1, 0)

BSub(a, b) == BTrim(BSubRec(a, b, 1, 0))

\* -1, 0, 1 as a < b, a = b, a > b
RECURSIVE BCmpRec(_, _, _)
BCmpRec(a, b, i) ==
  IF i = 0 THEN 0
  ELSE IF a[i] < b[i] THEN -1
  ELSE IF a[i] > b[i] THEN 1
  ELSE BCmpRec(a, b, i - 1)

BCmp(a, b) ==
  IF Len(a) < Len(b) THEN -1
  ELSE IF Len(a) > Len(b) THEN 1
  ELSE BCmpRec(a, b, Len(a))

\* a * k for 0 <= k < Base
RECURSIVE BMulSmallRec(_, _, _, _)
BMulSmallRec(a, k, i, c) ==
  IF i > Len(a) THEN (IF c = 0 THEN <<>> ELSE <<c>>)
  ELSE LET s == a[i] * k + c
       IN  <<s % Base>> \o BMulSmallRec(a, k, i + 1, s \div Base)

BMulSmall(a, k) == IF k = 0 THEN <<>> ELSE BMulSmallRec(a, k, 1, 0)

Zeros(n) == [i \in 1..n |-> 0]

RECURSIVE BMulRec(_, _, _)
BMulRec(a, b, i) ==
  IF i > Len(a) THEN <<>>
  ELSE BAdd(IF a[i] = 0 \/ b = <<>> THEN <<>>
            ELSE Zeros(i - 1) \o BMulSmall(b, a[i]),
            BMulRec(a, b, i + 1))

BMul(a, b) == BMulRec(a, b, 1)

\* a * 2^n
BShl(a, n) ==
  IF a = <<>> THEN <<>>
  ELSE Zeros(n \div LimbBits) \o BMulSmall(a, 2^(n % LimbBits))

\* floor(a / 2^n)
BShr(a, n) ==
  LET d == n \div LimbBits
      r == n % LimbBits
      m == Len(a) - d
  IN  IF m <= 0 THEN <<>>
      ELSE BTrim([i \in 1..m |->
                   (a[i + d] \div 2^r)
                   + (Limb(a, i + d + 1) % 2^r) * 2^(LimbBits - r)])

\* a mod 2^n
BLow(a, n) ==
  LET d == n \div LimbBits
      r == n % LimbBits
  IN  IF Len(a) <= d THEN a
      ELSE BTrim(SubSeq(a, 1, d) \o <<a[d + 1] % 2^r>>)

RECURSIVE IntBitLen(_)
IntBitLen(n) == IF n = 0 THEN 0 ELSE 1 + IntBitLen(n \div 2)

BBitLen(a) ==
  IF a = <<>> THEN 0 ELSE LimbBits * (Len(a) - 1) + IntBitLen(a[Len(a)])

BOdd(a) == a # <<>> /\ a[1] % 2 = 1

\* the largest q in lo..hi with d * q <= n (bisection)
RECURSIVE BDigit(_, _, _, _)
BDigit(n, d, lo, hi) ==
  IF lo = hi THEN lo
  ELSE LET mid == (lo + hi + 1) \div 2
       IN  IF BCmp(BMulSmall(d, mid), n) <= 0
           THEN BDigit(n, d, mid, hi)
           ELSE BDigit(n, d, lo, mid - 1)

\* <<the k limbs of floor(r * Base^k / d), (r * Base^k) mod d>> for r < d:
\* long division, one limb of the quotient per step
RECURSIVE BDivLimbs(_, _, _)
BDivLimbs(r, d, k) ==
  IF k = 0 THEN <<<<>>, r>>
  ELSE LET n    == IF r = <<>> THEN <<>> ELSE <<0>> \o r
           q    == BDigit(n, d, 0, Base - 1)
           rest == BDivLimbs(BSub(n, BMulSmall(d, q)), d, k - 1)
       IN  <<rest[1] \o <<q>>, rest[2]>>

\* ------------------------------------------------------------------------
\* IEEE-754 binary64 numbers: (-1)^neg * man * 2^exp, man of exactly
\* Precision bits, or zero
\* ------------------------------------------------------------------------

Precision == 53

QuotientLimbs == 4

Zero == [neg |-> FALSE, man |-> <<>>, exp |-> 0]

IsZero(a) == a.man = <<>>

\* the binary64 nearest to (-1)^neg * (m * 2^e [+ a positive amount below one
\* unit of m when sticky]), ties to even; sticky needs BBitLen(m) >=
\* Precision + 2
RoundPack(neg, m, e, sticky) ==
  LET len == BBitLen(m)
  IN  IF m = <<>> THEN Zero
      ELSE IF len <= Precision
      THEN [neg |-> neg, man |-> BShl(m, Precision - len),
            exp |-> e - (Precision - len)]
      ELSE LET sh   == len - Precision
               q    == BShr(m, sh)
               c    == BCmp(BLow(m, sh), BShl(<<1>>, sh - 1))
               up   == c = 1 \/ (c = 0 /\ (sticky \/ BOdd(q)))
               q2   == IF up THEN BAdd(q, <<1>>) ELSE q
           IN  IF BBitLen(q2) > Precision
               THEN [neg |-> neg, man |-> BShr(q2, 1), exp |-> e + sh + 1]
               ELSE [neg |-> neg, man |-> q2, exp |-> e + sh]

\* an integer literal or integer-valued number, |n| < 2^31
FInt(n) ==
  IF n < 0 THEN RoundPack(TRUE, BFromInt(-n), 0, FALSE)
  ELSE RoundPack(FALSE, BFromInt(n), 0, FALSE)

FNeg(a) == IF IsZero(a) THEN a ELSE [a EXCEPT !.neg = ~a.neg]

FAbs(a) == [a EXCEPT !.neg = FALSE]

\* a * b
FMul(a, b) ==
  IF IsZero(a) \/ IsZero(b) THEN Zero
  ELSE RoundPack(a.neg # b.neg, BMul(a.man, b.man), a.exp + b.exp, FALSE)

\* a + b
FAdd(a, b) ==
  IF IsZero(a) THEN b
  ELSE IF IsZero(b) THEN a
  ELSE LET e  == MinOf(a.exp, b.exp)
           ma == BShl(a.man, a.exp - e)
           mb == BShl(b.man, b.exp - e)
           c  == BCmp(ma, mb)
       IN  IF a.neg = b.neg THEN RoundPack(a.neg, BAdd(ma, mb), e, FALSE)
           ELSE IF c = 0 THEN Zero
           ELSE IF c = 1 THEN RoundPack(a.neg, BSub(ma, mb), e, FALSE)
           ELSE RoundPack(b.neg, BSub(mb, ma), e, FALSE)

\* a - b
FSub(a, b) == FAdd(a, FNeg(b))

\* the significand of a power of two
PowerOfTwo == BShl(<<1>>, Precision - 1)

\* a / b for b # 0: a power of two divides exactly; otherwise the quotient
\* of the significands to QuotientLimbs limbs
\* (at least two bits more than Precision) and whether a remainder is left
FDiv(a, b) ==
  IF IsZero(a) THEN Zero
  ELSE IF b.man = PowerOfTwo
  THEN [neg |-> a.neg # b.neg, man |-> a.man,
        exp |-> a.exp - b.exp - (Precision - 1)]
  ELSE LET k     == QuotientLimbs * LimbBits
           first == BCmp(a.man, b.man) >= 0
           qr    == BDivLimbs(IF first THEN BSub(a.man, b.man) ELSE a.man,
                              b.man, QuotientLimbs)
           q     == IF first THEN BAdd(BShl(<<1>>, k), BTrim(qr[1]))
                             ELSE BTrim(qr[1])
       IN  RoundPack(a.neg # b.neg, q, a.exp - b.exp - k, qr[2] # <<>>)

\* a < b, a <= b
FLess(a, b) == LET d == FSub(a, b) IN ~IsZero(d) /\ d.neg

FLeq(a, b) == ~FLess(b, a)

\* Math.min(a, b)
FMin(a, b) == IF FLess(b, a) THEN b ELSE a

\* Math.min(Math.max(v, lo), hi)
Clamp(v, lo, hi) == FMin(IF FLess(v, lo) THEN lo ELSE v, hi)

\* a * 2^k, exact
FScale(a, k) == IF IsZero(a) THEN a ELSE [a EXCEPT !.exp = a.exp + k]

\* the number written as the decimal literal n/d (d a power of ten): the
\* binary64 nearest to the quotient
Dec(n, d) == FDiv(FInt(n), FInt(d))

\* the number literals of the source
Half == Dec(5, 10)

Two == FInt(2)

SixTenths == Dec(6, 10)

ThreeTenths == Dec(3, 10)

TwoTenths == Dec(2, 10)

FortyFiveHundredths == Dec(45, 100)

EightTenths == Dec(8, 10)

SeventyFiveHundredths == Dec(75, 100)

Sixteen == FInt(16)

\* ------------------------------------------------------------------------
\* Geometry helpers of backend/server.js
\* ------------------------------------------------------------------------

\* Convert percentage coordinates to PDF points: the vertical flip without
\* subtracting the box height (the top edge taken for the bottom edge)
convertCoordinates_noHeight(coordinate, pageWidth, pageHeight) ==
  LET boxLeftPt   == FMul(coordinate.x, pageWidth)
      boxTopPt    == FMul(coordinate.y, pageHeight)
      boxWidthPt  == FMul(coordinate.width, pageWidth)
      boxHeightPt == FMul(coordinate.height, pageHeight)
      boxBottomPt == FSub(pageHeight, boxTopPt)
  IN  [x |-> boxLeftPt, y |-> boxBottomPt,
       width |-> boxWidthPt, height |-> boxHeightPt]

\* Convert percentage coordinates to PDF points: height scaled by the page
\* width
convertCoordinates_heightByWidth(coordinate, pageWidth, pageHeight) ==
  LET boxLeftPt   == FMul(coordinate.x, pageWidth)
      boxTopPt    == FMul(coordinate.y, pageHeight)
      boxWidthPt  == FMul(coordinate.width, pageWidth)
      boxHeightPt == FMul(coordinate.height, pageWidth)
      boxBottomPt == FSub(pageHeight, FAdd(boxTopPt, boxHeightPt))
  IN  [x |-> boxLeftPt, y |-> boxBottomPt,
       width |-> boxWidthPt, height |-> boxHeightPt]

\* Convert percentage coordinates to PDF points: the fractions clamped to
\* [0, 1] first
convertCoordinates_clamped(coordinate, pageWidth, pageHeight) ==
  LET boxLeftPt   == FMul(Clamp(coordinate.x, Zero, FInt(1)), pageWidth)
      boxTopPt    == FMul(Clamp(coordinate.y, Zero, FInt(1)), pageHeight)
      boxWidthPt  == FMul(Clamp(coordinate.width, Zero, FInt(1)), pageWidth)
      boxHeightPt == FMul(Clamp(coordinate.height, Zero, FInt(1)), pageHeight)
      boxBottomPt == FSub(pageHeight, FAdd(boxTopPt, boxHeightPt))
  IN  [x |-> boxLeftPt, y |-> boxBottomPt,
       width |-> boxWidthPt, height |-> boxHeightPt]

\* Convert percentage coordinates to PDF points
convertCoordinates(coordinate, pageWidth, pageHeight) ==
  LET boxLeftPt   == FMul(coordinate.x, pageWidth)
      boxTopPt    == FMul(coordinate.y, pageHeight)
      boxWidthPt  == FMul(coordinate.width, pageWidth)
      boxHeightPt == FMul(coordinate.height, pageHeight)
      boxBottomPt == FSub(pageHeight, FAdd(boxTopPt, boxHeightPt))
  IN  [x |-> boxLeftPt, y |-> boxBottomPt,
       width |-> boxWidthPt, height |-> boxHeightPt]

\* Fit image inside box: stretched to the box on both axes (no common scale)
fitImageInBox_stretch(imgWidth, imgHeight, boxWidth, boxHeight, boxX, boxY) ==
  LET drawWidth  == FMul(imgWidth, FDiv(boxWidth, imgWidth))
      drawHeight == FMul(imgHeight, FDiv(boxHeight, imgHeight))
      drawX      == FAdd(boxX, FDiv(FSub(boxWidth, drawWidth), Two))
      drawY      == FAdd(boxY, FDiv(FSub(boxHeight, drawHeight), Two))
  IN  [x |-> drawX, y |-> drawY, width |-> drawWidth, height |-> drawHeight]

\* Fit image inside box: anchored at the box origin instead of centered
fitImageInBox_corner(imgWidth, imgHeight, boxWidth, boxHeight, boxX, boxY) ==
  LET scale      == FMin(FDiv(boxWidth, imgWidth), FDiv(boxHeight, imgHeight))
      drawWidth  == FMul(imgWidth, scale)
      drawHeight == FMul(imgHeight, scale)
  IN  [x |-> boxX, y |-> boxY, width |-> drawWidth, height |-> drawHeight]

\* Fit image inside box: scaled by the width ratio alone
fitImageInBox_widthOnly(imgWidth, imgHeight, boxWidth, boxHeight, boxX, boxY) ==
  LET scale      == FDiv(boxWidth, imgWidth)
      drawWidth  == FMul(imgWidth, scale)
      drawHeight == FMul(imgHeight, scale)
      drawX      == FAdd(boxX, FDiv(FSub(boxWidth, drawWidth), Two))
      drawY      == FAdd(boxY, FDiv(FSub(boxHeight, drawHeight), Two))
  IN  [x |-> drawX, y |-> drawY, width |-> drawWidth, height |-> drawHeight]

\* Fit image inside box with aspect ratio preserved. The quotient by a zero
\* side of the image is +Infinity when the box side is positive, and Math.min
\* then returns the other quotient (imgWidth and imgHeight not both zero, and
\* boxWidth, boxHeight > 0 whenever one of them is).
fitImageInBox(imgWidth, imgHeight, boxWidth, boxHeight, boxX, boxY) ==
  LET scale      == IF IsZero(imgWidth) THEN FDiv(boxHeight, imgHeight)
                    ELSE IF IsZero(imgHeight) THEN FDiv(boxWidth, imgWidth)
                    ELSE FMin(FDiv(boxWidth, imgWidth),
                              FDiv(boxHeight, imgHeight))
      drawWidth  == FMul(imgWidth, scale)
      drawHeight == FMul(imgHeight, scale)
      drawX      == FAdd(boxX, FDiv(FSub(boxWidth, drawWidth), Two))
      drawY      == FAdd(boxY, FDiv(FSub(boxHeight, drawHeight), Two))
  IN  [x |-> drawX, y |-> drawY, width |-> drawWidth, height |-> drawHeight]

\* ------------------------------------------------------------------------
\* Inputs
\* ------------------------------------------------------------------------

\* fractions of a page are k/FractionDen for k up to MaxFraction, and 1
FractionDen == 20

MaxFraction == 4

\* batches of 1..MaxFields fields, documents of 1..MaxPages pages
MaxFields == 2

MaxPages == 2

\* values of Date.now()
MaxClock == 1

\* signing requests answered with success before the model stops taking more
MaxSigned == 2

\* odd image sides 1, 3, ... 2 * MaxImgStep + 1
MaxImgStep == 5
MaxParked == 1
MaxEvents == 3
MaxReads == 1

Letter == [width |-> FInt(612), height |-> FInt(792)]

\* the sample page of /sign-pdf: addPage([595.28, 841.89])
A4 == [width |-> Dec(59528, 100), height |-> Dec(84189, 100)]

PageSizes == {Letter, A4}

\* fractions of a page; -1/FractionDen lies outside [0, 1], which the
\* transform accepts
Fractions == {Dec(k, FractionDen) : k \in -1..MaxFraction} \cup {FInt(1)}

Coordinates ==
  [x : Fractions, y : Fractions, width : Fractions, height : Fractions]

ImgSides == {FInt(2 * k + 1) : k \in 0..MaxImgStep} \cup {FInt(400), FInt(800)}

BoxSides == {FInt(1), FInt(25), FInt(200)}

BoxOrigins ==
  {[x |-> Zero, y |-> Zero], [x |-> Dec(612, 10), y |-> Dec(6732, 10)]}

NoBox == [x |-> Zero, y |-> Zero, width |-> Zero, height |-> Zero]

\* ------------------------------------------------------------------------
\* State
\* ------------------------------------------------------------------------

VARIABLES
  conv,           \* a call of convertCoordinates: its arguments and, once
                  \* returned, its result
  fit,            \* a call of fitImageInBox: its arguments and, once
                  \* returned, its result
  pc,             \* position of the /sign-pdf handler
  req,            \* req.body of the request being handled
  pdfDoc,         \* the loaded document: the sizes of its pages
  signatureImage, \* the embedded signature image, if any
  fieldIndex,     \* position of the for-of loop over allFields (from 1)
  draws,          \* the drawing calls issued on the pages of pdfDoc, in order
  raisedAt,       \* the field whose rendering raised, 0 if none
  files,          \* the directory signed-pdfs
  audit,          \* the collection audit_trail
  signedFilename, \* the name under which the handler wrote the signed file
  resp,           \* the response sent
  verified,       \* the response of the last /verify request
  parked          \* /sign-pdf handlers suspended at an await

\* the state of the frontend component (App.js)
VARIABLES
  fields,            \* the field store
  selectedField,     \* id of the selected field, 0 for null
  selectedTool,      \* the tool picked in the toolbar, "" for null
  gesture,           \* the mousemove listener of a drag or resize in progress
  currentImageField, \* currentImageFieldRef.current, 0 for null
  reads,             \* FileReader reads of image files not yet completed
  now,               \* Date.now() of the browser
  events,            \* clicks and mouse presses handled so far
  zoomScale,         \* scale
  pages,             \* the rendered pages on display
  renders,           \* calls of renderAllPages not yet completed
  clientPdfDoc,      \* pdfDoc of the component: whether pdf.js has loaded it
  pdfDataForBackend, \* whether the bytes of the document are stored
  signatureData,     \* whether a signature has been drawn and saved
  isSigning,         \* isSigning
  sent               \* /sign-pdf requests sent and not yet answered

geomVars == <<conv, fit>>

handlerVars ==
  <<pc, req, pdfDoc, signatureImage, fieldIndex, draws, raisedAt, files,
    audit, signedFilename, resp, verified>>

storeVars ==
  <<fields, selectedField, selectedTool, gesture, currentImageField, reads,
    now, events>>

viewVars == <<zoomScale, pages, renders, clientPdfDoc, pdfDataForBackend>>

signVars == <<signatureData, isSigning, sent>>

clientVars == <<storeVars, viewVars, signVars>>

vars == <<conv, fit, pc, req, pdfDoc, signatureImage, fieldIndex, draws,
          raisedAt, files, audit, signedFilename, resp, verified, parked,
          clientVars>>

serverVars == <<geomVars, handlerVars, parked>>

\* the page of the sample document (MediaBox 595 x 842) rendered at a scale
RenderedPage(atScale) ==
  [pageNum |-> 1, width |-> FMul(FInt(595), atScale),
   height |-> FMul(FInt(842), atScale), scale |-> atScale]

\* no field
NoField ==
  [id |-> 0, type |-> "", page |-> 0, x |-> Zero, y |-> Zero, width |-> Zero,
   height |-> Zero, value |-> "null"]

\* no drag or resize in progress
NoGesture ==
  [kind |-> "", fieldId |-> 0, corner |-> "", fields |-> <<>>,
   startField |-> NoField, page |-> RenderedPage(Zero)]

\* the component after its first render: no field, no document, scale 1.0
ClientIdle ==
  /\ fields = <<>>
  /\ selectedField = 0
  /\ selectedTool = ""
  /\ gesture = NoGesture
  /\ currentImageField = 0
  /\ reads = {}
  /\ now = 0
  /\ events = 0
  /\ zoomScale = FInt(1)
  /\ pages = <<>>
  /\ renders = {}
  /\ clientPdfDoc = FALSE
  /\ pdfDataForBackend = FALSE
  /\ signatureData = FALSE
  /\ isSigning = FALSE
  /\ sent = {}

IdleConv ==
  [coordinate |-> NoBox, pageWidth |-> Zero, pageHeight |-> Zero,
   returned |-> FALSE, box |-> NoBox]

IdleFit ==
  [imgWidth |-> Zero, imgHeight |-> Zero, boxWidth |-> Zero,
   boxHeight |-> Zero, boxX |-> Zero, boxY |-> Zero,
   returned |-> FALSE, fitDims |-> NoBox]

\* ------------------------------------------------------------------------
\* POST /sign-pdf: request bodies
\* ------------------------------------------------------------------------

\* field.value: text is the string as character codes; mime, decodes and
\* the pixel sizes describe a data URI; truthy is the value's truthiness
NoValue ==
  [truthy |-> FALSE, text |-> <<>>, mime |-> "", decodes |-> FALSE,
   imgWidth |-> 0, imgHeight |-> 0]

BoolValue(b) == [NoValue EXCEPT !.truthy = b]

TextValue(codes) == [NoValue EXCEPT !.truthy = codes # <<>>, !.text = codes]

ImageValue(mime, decodes, w, h) ==
  [truthy |-> TRUE, text |-> <<>>, mime |-> mime, decodes |-> decodes,
   imgWidth |-> w, imgHeight |-> h]

\* an element of allFields; page 0 stands for a missing or zero page
Field(type, page, coordinate, value) ==
  [type |-> type, page |-> page, x |-> coordinate.x, y |-> coordinate.y,
   width |-> coordinate.width, height |-> coordinate.height, value |-> value]

NoSignature == [given |-> FALSE, decodes |-> FALSE, width |-> 0, height |-> 0]

\* pdfBase64: not given, given and loadable with these pages, or not loadable
Pdf(given, loadable, pageSizes) ==
  [given |-> given, loadable |-> loadable, pages |-> pageSizes]

NoRequest ==
  [pdfId |-> "", pdf |-> Pdf(FALSE, FALSE, <<>>), signature |-> NoSignature,
   allFields |-> <<>>]

\* ------------------------------------------------------------------------
\* POST /sign-pdf: the renderer calls of one loop iteration
\* ------------------------------------------------------------------------

\* Replace any non-ASCII char with '?'
sanitizeTextForPdf(text) ==
  [j \in 1..Len(text) |-> IF text[j] > 127 THEN 63 ELSE text[j]]

\* page.drawText cleans the text (tab, backspace, vertical tab), splits it
\* into lines (line feed, form feed, carriage return) and encodes each line
\* for the standard font; it raises on a character the font's WinAnsi
\* encoding lacks
WinAnsiEncodable(text) ==
  \A j \in 1..Len(text) : text[j] \in (8..13) \cup (32..126) \cup (160..255)

\* a drawing call on page `page`, issued for field number `field`, computed
\* from the box `box`
Draw(field, page, op, style, at, box, text) ==
  [field |-> field, page |-> page, op |-> op, style |-> style, at |-> at,
   box |-> box, text |-> text]

Rendered(ds) == [draws |-> ds, raised |-> FALSE]

Raised == [draws |-> <<>>, raised |-> TRUE]

\* page.drawImage of an image fitted into the box
ImageAt(k, field, box, style, fitDims) ==
  Rendered(<<Draw(k, field.page, "drawImage", style,
                  <<fitDims.x, fitDims.y, fitDims.width, fitDims.height>>,
                  box, <<>>)>>)

\* SIGNATURE FIELD
RenderSignature(k, field, box, image) ==
  ImageAt(k, field, box, "signature",
          fitImageInBox(FInt(image.width), FInt(image.height),
                        box.width, box.height, box.x, box.y))

\* page.drawText of the sanitized text at the font size
TextAt(k, field, box, safeText, fontSize) ==
  IF ~WinAnsiEncodable(safeText) THEN Raised
  ELSE Rendered(<<Draw(k, field.page, "drawText", field.type,
                       <<box.x,
                         FAdd(box.y, FDiv(FSub(box.height, fontSize), Two)),
                         fontSize>>,
                       box, safeText)>>)

\* TEXT FIELD, DATE FIELD with the font size not capped at 16
RenderText_uncapped(k, field, box) ==
  TextAt(k, field, box, sanitizeTextForPdf(field.value.text),
         FMul(box.height, SixTenths))

\* TEXT FIELD, DATE FIELD
RenderText(k, field, box) ==
  TextAt(k, field, box, sanitizeTextForPdf(field.value.text),
         FMin(FMul(box.height, SixTenths), Sixteen))

\* the border of the square and the tick, with an X of two strokes drawn in
\* the square when unchecked
CheckboxTick_crossed(k, field, box, size, x, y, tickX2, tickY2) ==
  IF field.value.truthy
  THEN Rendered(<<Draw(k, field.page, "drawRectangle", "border",
                       <<x, y, size, size>>, box, <<>>),
                  Draw(k, field.page, "drawLine", "tick",
                       <<FAdd(x, FMul(size, TwoTenths)),
                         FAdd(y, FMul(size, FortyFiveHundredths)),
                         tickX2, tickY2>>, box, <<>>),
                  Draw(k, field.page, "drawLine", "tick",
                       <<tickX2, tickY2,
                         FAdd(x, FMul(size, EightTenths)),
                         FAdd(y, FMul(size, SeventyFiveHundredths))>>,
                       box, <<>>)>>)
  ELSE Rendered(<<Draw(k, field.page, "drawRectangle", "border",
                       <<x, y, size, size>>, box, <<>>),
                  Draw(k, field.page, "drawLine", "cross",
                       <<x, y, FAdd(x, size), FAdd(y, size)>>, box, <<>>),
                  Draw(k, field.page, "drawLine", "cross",
                       <<x, FAdd(y, size), FAdd(x, size), y>>, box, <<>>)>>)

\* the border of the square and, if checked, the two strokes of the tick
CheckboxTick(k, field, box, size, x, y, tickX2, tickY2) ==
  IF field.value.truthy
  THEN Rendered(<<Draw(k, field.page, "drawRectangle", "border",
                       <<x, y, size, size>>, box, <<>>),
                  Draw(k, field.page, "drawLine", "tick",
                       <<FAdd(x, FMul(size, TwoTenths)),
                         FAdd(y, FMul(size, FortyFiveHundredths)),
                         tickX2, tickY2>>, box, <<>>),
                  Draw(k, field.page, "drawLine", "tick",
                       <<tickX2, tickY2,
                         FAdd(x, FMul(size, EightTenths)),
                         FAdd(y, FMul(size, SeventyFiveHundredths))>>,
                       box, <<>>)>>)
  ELSE Rendered(<<Draw(k, field.page, "drawRectangle", "border",
                       <<x, y, size, size>>, box, <<>>)>>)

\* the square of side size at (x, y)
CheckboxAt(k, field, box, size, x, y) ==
  CheckboxTick(k, field, box, size, x, y,
               FAdd(x, FMul(size, FortyFiveHundredths)),
               FAdd(y, FMul(size, TwoTenths)))

\* the square of side size, centered in the box
CheckboxSquare(k, field, box, size) ==
  CheckboxAt(k, field, box, size,
             FAdd(box.x, FDiv(FSub(box.width, size), Two)),
             FAdd(box.y, FDiv(FSub(box.height, size), Two)))

\* CHECKBOX FIELD with the side of the square clamped to 8..14
RenderCheckbox_clamped(k, field, box) ==
  CheckboxSquare(k, field, box,
                 Clamp(FMul(FMin(box.width, box.height), SixTenths),
                       FInt(8), FInt(14)))

\* CHECKBOX FIELD
RenderCheckbox(k, field, box) ==
  CheckboxSquare(k, field, box, FMul(FMin(box.width, box.height), SixTenths))

\* page.drawEllipse of a circle
Circle(k, field, box, style, cx, cy, r) ==
  Draw(k, field.page, "drawEllipse", style, <<cx, cy, r, r>>, box, <<>>)

\* the outer circle and, if selected, the inner dot
RadioCircles(k, field, box, cx, cy, radius) ==
  IF field.value.truthy
  THEN Rendered(<<Circle(k, field, box, "border", cx, cy, radius),
                  Circle(k, field, box, "fill", cx, cy, FMul(radius, Half))>>)
  ELSE Rendered(<<Circle(k, field, box, "border", cx, cy, radius)>>)

\* RADIO FIELD with the radius clamped to 4..8
RenderRadio_clamped(k, field, box) ==
  RadioCircles(k, field, box,
               FAdd(box.x, FDiv(box.width, Two)),
               FAdd(box.y, FDiv(box.height, Two)),
               Clamp(FDiv(FMul(FMin(box.width, box.height), SixTenths), Two),
                     FInt(4), FInt(8)))

\* RADIO FIELD
RenderRadio(k, field, box) ==
  RadioCircles(k, field, box,
               FAdd(box.x, FDiv(box.width, Two)),
               FAdd(box.y, FDiv(box.height, Two)),
               FDiv(FMul(FMin(box.width, box.height), SixTenths), Two))

\* IMAGE FIELD with no try/catch around the embedding: a failing embed
\* raises into the catch of the handler
RenderImage_uncaught(k, field, box) ==
  IF field.value.mime \notin {"image/png", "image/jpeg", "image/jpg"}
  THEN Rendered(<<>>)
  ELSE IF ~field.value.decodes THEN Raised
  ELSE ImageAt(k, field, box, "image",
               fitImageInBox(FInt(field.value.imgWidth),
                             FInt(field.value.imgHeight),
                             box.width, box.height, box.x, box.y))

\* IMAGE FIELD: an unsupported format is skipped, a failing embed is caught
RenderImage(k, field, box) ==
  IF field.value.mime \notin {"image/png", "image/jpeg", "image/jpg"}
  THEN Rendered(<<>>)
  ELSE IF ~field.value.decodes THEN Rendered(<<>>)
  ELSE ImageAt(k, field, box, "image",
               fitImageInBox(FInt(field.value.imgWidth),
                             FInt(field.value.imgHeight),
                             box.width, box.height, box.x, box.y))

\* the chain of type tests with a final else in place of the radio test:
\* every field no earlier branch takes is drawn as a radio button
RenderBox_radioElse(k, field, box, image) ==
  IF field.type = "signature" /\ image.present
    THEN RenderSignature(k, field, box, image)
  ELSE IF field.type = "text" /\ field.value.truthy
    THEN RenderText(k, field, box)
  ELSE IF field.type = "date" /\ field.value.truthy
    THEN RenderText(k, field, box)
  ELSE IF field.type = "checkbox" THEN RenderCheckbox(k, field, box)
  ELSE RenderRadio(k, field, box)

\* the chain of type tests of one iteration, on the box in points
RenderBox(k, field, box, image) ==
  IF field.type = "signature" /\ image.present
    THEN RenderSignature(k, field, box, image)
  ELSE IF field.type = "text" /\ field.value.truthy
    THEN RenderText(k, field, box)
  ELSE IF field.type = "date" /\ field.value.truthy
    THEN RenderText(k, field, box)
  ELSE IF field.type = "checkbox" THEN RenderCheckbox(k, field, box)
  ELSE IF field.type = "radio" THEN RenderRadio(k, field, box)
  ELSE IF field.type = "image" /\ field.value.truthy
    THEN RenderImage(k, field, box)
  ELSE Rendered(<<>>)

\* one iteration for a field on an existing page: convertCoordinates, then
\* the type tests
RenderField(k, field, pageSize, image) ==
  RenderBox(k, field,
            convertCoordinates(field, pageSize.width, pageSize.height), image)

\* ------------------------------------------------------------------------
\* POST /sign-pdf: the handler
\* ------------------------------------------------------------------------

\* computeHash: SHA-256, taken to be free of collisions
computeHash(bytes) == [sha256 |-> bytes]

\* the bytes of a document: the PDF it was loaded from and, once saved by
\* pdf-lib, the drawing calls it carries
Bytes(pdf, saved, ds) == [pdf |-> pdf, saved |-> saved, draws |-> ds]

NoResponse == [status |-> 0, success |-> FALSE, error |-> "", body |-> <<>>]

Failure(status, error) ==
  [status |-> status, success |-> FALSE, error |-> error, body |-> <<>>]

NoImage == [present |-> FALSE, width |-> 0, height |-> 0]

\* no bytes read, no hash computed
NoHash == computeHash(Bytes(Pdf(FALSE, FALSE, <<>>), FALSE, <<>>))

\* no /verify request answered yet
NoVerification ==
  [status |-> 0, success |-> FALSE, isValid |-> FALSE, pdfUrl |-> <<>>,
   actualHash |-> NoHash, expectedHash |-> NoHash]

HandlerIdle ==
  /\ pc = "idle"
  /\ req = NoRequest
  /\ pdfDoc = <<>>
  /\ signatureImage = NoImage
  /\ fieldIndex = 0
  /\ draws = <<>>
  /\ raisedAt = 0
  /\ files = {}
  /\ audit = <<>>
  /\ signedFilename = <<>>
  /\ resp = NoResponse
  /\ verified = NoVerification
  /\ parked = {}
  /\ ClientIdle

\* the request arrives: validation, decoding or fallback to the sample
\* document, PDFDocument.load, embedding of the signature image
Receive(requests) ==
  /\ pc = "idle"
  /\ \E r \in requests :
       /\ req' = r
       /\ IF r.pdfId = "" \/ r.allFields = <<>>
          THEN /\ resp' = Failure(400, "Missing required fields: pdfId, allFields")
               /\ pc' = "done"
               /\ UNCHANGED <<pdfDoc, signatureImage, fieldIndex>>
          ELSE IF r.pdf.given /\ ~r.pdf.loadable
          THEN /\ resp' = Failure(400, "Failed to load PDF")
               /\ pc' = "done"
               /\ UNCHANGED <<pdfDoc, signatureImage, fieldIndex>>
          ELSE IF r.signature.given /\ ~r.signature.decodes
          THEN /\ resp' = Failure(400, "Failed to embed signature")
               /\ pc' = "done"
               /\ pdfDoc' = (IF r.pdf.given THEN r.pdf.pages ELSE <<A4>>)
               /\ UNCHANGED <<signatureImage, fieldIndex>>
          ELSE /\ resp' = resp
               /\ pc' = "fields"
               /\ pdfDoc' = (IF r.pdf.given THEN r.pdf.pages ELSE <<A4>>)
               /\ signatureImage' =
                    [present |-> r.signature.given,
                     width |-> r.signature.width,
                     height |-> r.signature.height]
               /\ fieldIndex' = 1
  /\ UNCHANGED <<draws, raisedAt, files, audit, signedFilename, geomVars,
                 verified, parked, clientVars>>

\* the body of the loop over allFields with no page test: getPage raises
\* for a page the document lacks
IterateField_noPageTest(k, field, docPages, image) ==
  LET pageIndex == (IF field.page = 0 THEN 1 ELSE field.page) - 1
  IN  IF pageIndex < 0 \/ pageIndex >= Len(docPages)
      THEN Raised
      ELSE RenderField(k, [field EXCEPT !.page = pageIndex + 1],
                       docPages[pageIndex + 1], image)

\* the body of the loop over allFields: the page test, which skips the
\* field, then the renderer calls on the page
IterateField(k, field, docPages, image) ==
  LET pageIndex == (IF field.page = 0 THEN 1 ELSE field.page) - 1
  IN  IF pageIndex < 0 \/ pageIndex >= Len(docPages)
      THEN Rendered(<<>>)
      ELSE RenderField(k, [field EXCEPT !.page = pageIndex + 1],
                       docPages[pageIndex + 1], image)

\* the end of an iteration with the embedding of an image not awaited: the
\* drawImage of an image field lands after the drawing calls of the next
\* field
EndIteration_notAwaited(out) ==
  IF out.raised
  THEN /\ pc' = "done"
       /\ raisedAt' = fieldIndex
       /\ resp' = Failure(500, "drawText")
       /\ UNCHANGED <<fieldIndex, draws>>
  ELSE /\ draws' =
            (IF draws # <<>> /\ draws[Len(draws)].style = "image"
             THEN SubSeq(draws, 1, Len(draws) - 1) \o out.draws
                  \o <<draws[Len(draws)]>>
             ELSE draws \o out.draws)
       /\ fieldIndex' = fieldIndex + 1
       /\ UNCHANGED <<pc, raisedAt, resp>>

\* the end of an iteration: the drawing calls stay on the pages and the loop
\* goes on, or the exception leaves the loop for the catch of the handler
EndIteration(out) ==
  IF out.raised
  THEN /\ pc' = "done"
       /\ raisedAt' = fieldIndex
       /\ resp' = Failure(500, "drawText")
       /\ UNCHANGED <<fieldIndex, draws>>
  ELSE /\ draws' = draws \o out.draws
       /\ fieldIndex' = fieldIndex + 1
       /\ UNCHANGED <<pc, raisedAt, resp>>

\* one iteration of the loop over allFields
ProcessField ==
  /\ pc = "fields"
  /\ fieldIndex <= Len(req.allFields)
  /\ EndIteration(IterateField(fieldIndex, req.allFields[fieldIndex], pdfDoc,
                               signatureImage))
  /\ UNCHANGED <<req, pdfDoc, signatureImage, files, audit, signedFilename,
                 geomVars, verified, parked, clientVars>>

\* after the loop: pdfDoc.save, mkdir, Date.now, writeFile; a failing file
\* system raises into the catch of the handler
Save ==
  /\ pc = "fields"
  /\ fieldIndex > Len(req.allFields)
  /\ \E timestamp \in 1..MaxClock, written \in BOOLEAN :
       IF written
       THEN /\ files' =
                 {f \in files : f.name # <<req.pdfId, timestamp>>}
                 \cup {[name |-> <<req.pdfId, timestamp>>,
                        bytes |-> Bytes(req.pdf, TRUE, draws)]}
            /\ signedFilename' = <<req.pdfId, timestamp>>
            /\ pc' = "audit"
            /\ resp' = resp
       ELSE /\ files' = files
            /\ signedFilename' = signedFilename
            /\ pc' = "done"
            /\ resp' = Failure(500, "writeFile")
  /\ UNCHANGED <<req, pdfDoc, signatureImage, fieldIndex, draws, raisedAt,
                 audit, geomVars, verified, parked, clientVars>>

\* const auditRecord = { pdfId, originalHash, signedHash, fieldData,
\* signedFilename, createdAt }
auditRecord ==
  [pdfId |-> req.pdfId,
   originalHash |-> computeHash(Bytes(req.pdf, FALSE, <<>>)),
   signedHash |-> computeHash(Bytes(req.pdf, TRUE, draws)),
   fieldData |-> req.allFields,
   signedFilename |-> signedFilename]

\* res.json({ success: true, signedPdfUrl, originalHash, signedHash,
\* auditId }): auditId is the _id the insert gave the record
Success(auditId) ==
  [status |-> 200, success |-> TRUE, error |-> "",
   body |-> <<[signedPdfUrl |-> signedFilename,
               originalHash |-> auditRecord.originalHash,
               signedHash |-> auditRecord.signedHash,
               auditId |-> auditId]>>]

\* insertOne into audit_trail with its failure swallowed: success is
\* answered whether or not the record was inserted
Audit_swallowed ==
  /\ pc = "audit"
  /\ \E inserted \in BOOLEAN :
       /\ audit' = (IF inserted THEN Append(audit, auditRecord) ELSE audit)
       /\ resp' = Success(Len(audit) + 1)
  /\ pc' = "done"
  /\ UNCHANGED <<req, pdfDoc, signatureImage, fieldIndex, draws, raisedAt,
                 files, signedFilename, geomVars, verified, parked, clientVars>>

\* insertOne into audit_trail with the signed file removed again when the
\* insert fails
Audit_rolledBack ==
  /\ pc = "audit"
  /\ \E inserted \in BOOLEAN :
       IF inserted
       THEN /\ audit' = Append(audit, auditRecord)
            /\ resp' = Success(Len(audit) + 1)
            /\ files' = files
       ELSE /\ audit' = audit
            /\ resp' = Failure(500, "insertOne")
            /\ files' = {f \in files : f.name # signedFilename}
  /\ pc' = "done"
  /\ UNCHANGED <<req, pdfDoc, signatureImage, fieldIndex, draws, raisedAt,
                 signedFilename, geomVars, verified, parked, clientVars>>

\* insertOne into audit_trail, then the success response; a failing insert
\* raises into the catch of the handler
Audit ==
  /\ pc = "audit"
  /\ \E inserted \in BOOLEAN :
       IF inserted
       THEN /\ audit' = Append(audit, auditRecord)
            /\ resp' = Success(Len(audit) + 1)
       ELSE /\ audit' = audit
            /\ resp' = Failure(500, "insertOne")
  /\ pc' = "done"
  /\ UNCHANGED <<req, pdfDoc, signatureImage, fieldIndex, draws, raisedAt,
                 files, signedFilename, geomVars, verified, parked, clientVars>>

\* the response is sent and the handler is ready for the next request;
\* signed-pdfs and audit_trail stay
NextRequest ==
  /\ pc = "done"
  /\ Len(audit) < MaxSigned
  /\ pc' = "idle"
  /\ req' = NoRequest
  /\ pdfDoc' = <<>>
  /\ signatureImage' = NoImage
  /\ fieldIndex' = 0
  /\ draws' = <<>>
  /\ raisedAt' = 0
  /\ signedFilename' = <<>>
  /\ resp' = NoResponse
  /\ UNCHANGED <<files, audit, geomVars, verified, parked, clientVars>>

\* the local state of the handler of one request
Context ==
  [pc |-> pc, req |-> req, pdfDoc |-> pdfDoc,
   signatureImage |-> signatureImage, fieldIndex |-> fieldIndex,
   draws |-> draws, raisedAt |-> raisedAt, signedFilename |-> signedFilename,
   resp |-> resp]

\* the handler reaches an await whose promise is pending (PDFDocument.load
\* before the loop, pdfDoc.save and fs.mkdir after it, insertOne after
\* writeFile) and the event loop is free to take another request
Park ==
  /\ \/ pc = "audit"
     \/ pc = "fields" /\ (fieldIndex = 1 \/ fieldIndex > Len(req.allFields))
  /\ Cardinality(parked) < MaxParked
  /\ parked' = parked \cup {Context}
  /\ pc' = "idle"
  /\ req' = NoRequest
  /\ pdfDoc' = <<>>
  /\ signatureImage' = NoImage
  /\ fieldIndex' = 0
  /\ draws' = <<>>
  /\ raisedAt' = 0
  /\ signedFilename' = <<>>
  /\ resp' = NoResponse
  /\ UNCHANGED <<files, audit, geomVars, verified, clientVars>>

\* the promise a suspended handler awaits settles and the handler goes on
Resume ==
  /\ pc = "idle"
  /\ \E c \in parked :
       /\ parked' = parked \ {c}
       /\ pc' = c.pc
       /\ req' = c.req
       /\ pdfDoc' = c.pdfDoc
       /\ signatureImage' = c.signatureImage
       /\ fieldIndex' = c.fieldIndex
       /\ draws' = c.draws
       /\ raisedAt' = c.raisedAt
       /\ signedFilename' = c.signedFilename
       /\ resp' = c.resp
  /\ UNCHANGED <<files, audit, geomVars, verified, clientVars>>

\* ------------------------------------------------------------------------
\* POST /verify and the directory signed-pdfs
\* ------------------------------------------------------------------------

\* the file names /verify is asked about: those stored, those recorded and
\* one that was never written (timestamp 0)
VerifyUrls ==
  {f.name : f \in files}
  \cup {audit[i].signedFilename : i \in 1..Len(audit)}
  \cup {<<"contract", 0>>}

\* the hashes /verify is given: those the audit trail recorded
VerifyHashes ==
  {audit[i].signedHash : i \in 1..Len(audit)}
  \cup {audit[i].originalHash : i \in 1..Len(audit)}
  \cup {NoHash}

\* the answer of /verify when the file is read
Verification(pdfUrl, pdfBytes, expectedHash) ==
  [status |-> 200, success |-> TRUE,
   isValid |-> computeHash(pdfBytes) = expectedHash,
   pdfUrl |-> pdfUrl,
   actualHash |-> computeHash(pdfBytes), expectedHash |-> expectedHash]

\* the answer of /verify when readFile raises
VerifyFailure(pdfUrl, expectedHash) ==
  [status |-> 500, success |-> FALSE, isValid |-> FALSE, pdfUrl |-> pdfUrl,
   actualHash |-> NoHash, expectedHash |-> expectedHash]

\* POST /verify comparing expectedHash with the hashes the audit trail
\* recorded instead of the hash of the stored bytes
Verify_recorded ==
  /\ \E pdfUrl \in VerifyUrls, expectedHash \in VerifyHashes :
       IF \E f \in files : f.name = pdfUrl
       THEN LET pdfBytes == (CHOOSE f \in files : f.name = pdfUrl).bytes
            IN  verified' =
                  [Verification(pdfUrl, pdfBytes, expectedHash) EXCEPT
                     !.isValid = \E i \in 1..Len(audit) :
                                    audit[i].signedHash = expectedHash]
       ELSE verified' = VerifyFailure(pdfUrl, expectedHash)
  /\ UNCHANGED <<pc, req, pdfDoc, signatureImage, fieldIndex, draws, raisedAt,
                 files, audit, signedFilename, resp, geomVars, parked,
                 clientVars>>

\* POST /verify: readFile of signed-pdfs/basename(pdfUrl), computeHash,
\* comparison with expectedHash; a missing file raises into the catch
Verify ==
  /\ \E pdfUrl \in VerifyUrls, expectedHash \in VerifyHashes :
       IF \E f \in files : f.name = pdfUrl
       THEN LET pdfBytes == (CHOOSE f \in files : f.name = pdfUrl).bytes
            IN  verified' = Verification(pdfUrl, pdfBytes, expectedHash)
       ELSE verified' = VerifyFailure(pdfUrl, expectedHash)
  /\ UNCHANGED <<pc, req, pdfDoc, signatureImage, fieldIndex, draws, raisedAt,
                 files, audit, signedFilename, resp, geomVars, parked,
                 clientVars>>

\* a file of signed-pdfs is modified outside the handlers: the unsigned
\* document is put in its place
Tamper ==
  /\ \E f \in files :
       /\ f.bytes.saved
       /\ files' = (files \ {f})
                   \cup {[f EXCEPT !.bytes = Bytes(f.bytes.pdf, FALSE, <<>>)]}
  /\ UNCHANGED <<pc, req, pdfDoc, signatureImage, fieldIndex, draws, raisedAt,
                 audit, signedFilename, resp, geomVars, verified, parked,
                 clientVars>>

\* a file of signed-pdfs is deleted outside the handlers
Remove ==
  /\ \E f \in files : files' = files \ {f}
  /\ UNCHANGED <<pc, req, pdfDoc, signatureImage, fieldIndex, draws, raisedAt,
                 audit, signedFilename, resp, geomVars, verified, parked,
                 clientVars>>

\* ------------------------------------------------------------------------
\* POST /sign-pdf: the requests handled
\* ------------------------------------------------------------------------

\* ------------------------------------------------------------------------
\* The frontend component: document, pages and field store
\* ------------------------------------------------------------------------

\* Math.max(a, b)
FMax(a, b) == IF FLess(a, b) THEN b ELSE a

\* loadPDF of the sample document, called from the first render: the bytes
\* are stored for the backend, pdf.js loads the document (or fails) and
\* renderAllPages starts at the scale of that render, 1.0
loadPDF ==
  /\ ~pdfDataForBackend
  /\ pdfDataForBackend' = TRUE
  /\ \E loaded \in BOOLEAN :
       /\ clientPdfDoc' = loaded
       /\ renders' = (IF loaded THEN renders \cup {FInt(1)} ELSE renders)
  /\ UNCHANGED <<zoomScale, pages, storeVars, signVars, serverVars>>

\* renderAllPages: the pages of one call are all rendered and setPages
\* puts them on display
renderAllPages ==
  /\ \E atScale \in renders :
       /\ pages' = <<RenderedPage(atScale)>>
       /\ renders' = renders \ {atScale}
  /\ UNCHANGED <<zoomScale, clientPdfDoc, pdfDataForBackend, storeVars,
                 signVars, serverVars>>

\* setScale and the effect on [scale]: when the scale has changed and a
\* document is loaded, renderAllPages starts at the new scale
setScale(newScale) ==
  /\ events < MaxEvents
  /\ events' = events + 1
  /\ zoomScale' = newScale
  /\ renders' = (IF newScale # zoomScale /\ clientPdfDoc
                 THEN renders \cup {newScale} ELSE renders)
  /\ UNCHANGED <<pages, clientPdfDoc, pdfDataForBackend, fields,
                 selectedField, selectedTool, gesture, currentImageField,
                 reads, now, signVars, serverVars>>

\* Zoom In: setScale(s => Math.min(s + 0.2, 3))
ZoomIn == setScale(FMin(FAdd(zoomScale, Dec(2, 10)), FInt(3)))

\* Zoom Out: setScale(s => Math.max(s - 0.2, 0.5))
ZoomOut == setScale(FMax(FSub(zoomScale, Dec(2, 10)), Dec(5, 10)))

\* saveSignature: the drawing in the modal becomes signatureData
saveSignature ==
  /\ ~signatureData
  /\ signatureData' = TRUE
  /\ UNCHANGED <<isSigning, sent, storeVars, viewVars, serverVars>>

\* fields.filter(f => f.type === FIELD_TYPES.SIGNATURE)
signatureFields == SelectSeq(fields, LAMBDA f : f.type = "signature")

\* handleSignPDF up to the fetch, from the Sign PDF button (disabled while
\* isSigning): the three alerts, or setIsSigning(true) and the request
handleSignPDF ==
  /\ ~isSigning
  /\ IF ~signatureData \/ signatureFields = <<>> \/ ~pdfDataForBackend
     THEN UNCHANGED <<isSigning, sent>>
     ELSE /\ isSigning' = TRUE
          /\ sent' = sent \cup {[pdfId |-> now, coordinates |-> signatureFields,
                                  allFields |-> fields]}
  /\ UNCHANGED <<signatureData, storeVars, viewVars, serverVars>>

\* the rest of handleSignPDF with setIsSigning(false) only after a
\* successful answer
Answer_noFinally ==
  /\ \E request \in sent, outcome \in {"success", "error", "unreachable"} :
       /\ sent' = sent \ {request}
       /\ isSigning' = (IF outcome = "success" THEN FALSE ELSE isSigning)
  /\ UNCHANGED <<signatureData, storeVars, viewVars, serverVars>>

\* the rest of handleSignPDF: the fetch settles with a success, with an
\* error answer or with a rejection, the alert is shown and the finally
\* block runs setIsSigning(false)
Answer ==
  /\ \E request \in sent, outcome \in {"success", "error", "unreachable"} :
       /\ sent' = sent \ {request}
       /\ isSigning' = FALSE
  /\ UNCHANGED <<signatureData, storeVars, viewVars, serverVars>>

\* the toolbar buttons: setSelectedTool(tool.type)
setSelectedTool(tools) ==
  /\ gesture = NoGesture
  /\ \E tool \in tools : selectedTool' = tool
  /\ UNCHANGED <<fields, selectedField, gesture, currentImageField, reads,
                 now, events, viewVars, signVars, serverVars>>

\* the value a new field of the type starts with
InitialValue(type) ==
  CASE type = "text" -> ""
    [] type = "date" -> "11/5/2026"
    [] type \in {"checkbox", "radio"} -> "false"
    [] OTHER -> "null"

\* const newField = { id: Date.now(), type, page, x, y, width: 0.2,
\* height: 0.08, value }
newField(id, type, page, clickX, clickY) ==
  [id |-> id, type |-> type, page |-> page.pageNum,
   x |-> FDiv(clickX, page.width), y |-> FDiv(clickY, page.height),
   width |-> Dec(2, 10), height |-> Dec(8, 100),
   value |-> InitialValue(type)]

\* handlePageClick: a click at an offset inside the page, in pixels, places
\* a field of the selected tool
handlePageClick(clicks) ==
  /\ selectedTool # ""
  /\ gesture = NoGesture
  /\ pages # <<>>
  /\ events < MaxEvents
  /\ \E click \in clicks :
       /\ FLeq(FInt(click[1]), pages[1].width)
       /\ FLeq(FInt(click[2]), pages[1].height)
       /\ fields' = Append(fields,
                           newField(now + 1, selectedTool, pages[1],
                                    FInt(click[1]), FInt(click[2])))
  /\ selectedTool' = ""
  /\ now' = now + 1
  /\ events' = events + 1
  /\ UNCHANGED <<selectedField, gesture, currentImageField, reads, viewVars,
                 signVars, serverVars>>

\* fields.find(f => f.id === fieldId)
FindField(store, fieldId) ==
  LET matching == SelectSeq(store, LAMBDA f : f.id = fieldId)
  IN  IF matching = <<>> THEN NoField ELSE matching[1]

\* fields.map(f => f.id === fieldId ? replacement : f), over the fields the
\* closure holds
MapField(store, fieldId, Replacement(_)) ==
  [i \in DOMAIN store |->
     IF store[i].id = fieldId THEN Replacement(store[i]) ELSE store[i]]

\* handleFieldMouseDown: selects the field and installs the mousemove
\* listener of the drag, which holds the fields, the field and the page of
\* this render
handleFieldMouseDown ==
  /\ gesture = NoGesture
  /\ pages # <<>>
  /\ events < MaxEvents
  /\ \E i \in DOMAIN fields :
       /\ selectedField' = fields[i].id
       /\ gesture' = [kind |-> "drag", fieldId |-> fields[i].id,
                      corner |-> "", fields |-> fields,
                      startField |-> FindField(fields, fields[i].id),
                      page |-> pages[1]]
  /\ events' = events + 1
  /\ UNCHANGED <<fields, selectedTool, currentImageField, reads, now,
                 viewVars, signVars, serverVars>>

\* Math.max(0, Math.min(1 - f.width, newX)) with newX = (startFieldX +
\* deltaX) / page.width and startFieldX = field.x * page.width
DragCoordinate(start, extent, delta, pageSide) ==
  FMax(Zero,
       FMin(FSub(FInt(1), extent),
            FDiv(FAdd(FMul(start, pageSide), delta), pageSide)))

\* the mousemove listener of a drag: the field follows the pointer, kept
\* inside the page
DragMove(deltas) ==
  /\ gesture.kind = "drag"
  /\ \E delta \in deltas :
       fields' =
         MapField(gesture.fields, gesture.fieldId,
                  LAMBDA f :
                    [f EXCEPT
                       !.x = DragCoordinate(gesture.startField.x, f.width,
                                            FInt(delta[1]),
                                            gesture.page.width),
                       !.y = DragCoordinate(gesture.startField.y, f.height,
                                            FInt(delta[2]),
                                            gesture.page.height)])
  /\ UNCHANGED <<selectedField, selectedTool, gesture, currentImageField,
                 reads, now, events, viewVars, signVars, serverVars>>

\* handleResize: a press on a corner handle of the selected field installs
\* the mousemove listener of the resize
handleResize ==
  /\ gesture = NoGesture
  /\ pages # <<>>
  /\ events < MaxEvents
  /\ FindField(fields, selectedField) # NoField
  /\ \E corner \in {"top-left", "top-right", "bottom-left", "bottom-right"} :
       gesture' = [kind |-> "resize", fieldId |-> selectedField,
                   corner |-> corner, fields |-> fields,
                   startField |-> FindField(fields, selectedField),
                   page |-> pages[1]]
  /\ events' = events + 1
  /\ UNCHANGED <<fields, selectedField, selectedTool, currentImageField,
                 reads, now, viewVars, signVars, serverVars>>

\* corner.includes(side)
Includes(corner, side) ==
  CASE corner = "top-left" -> side \in {"top", "left"}
    [] corner = "top-right" -> side \in {"top", "right"}
    [] corner = "bottom-left" -> side \in {"bottom", "left"}
    [] corner = "bottom-right" -> side \in {"bottom", "right"}

\* Math.max(minimum, Math.min(1 - start, extent + delta)): the new width
\* of a resize from the right, the new height of a resize from the bottom
ResizeFar(start, extent, delta, minimum) ==
  FMax(minimum, FMin(FSub(FInt(1), start), FAdd(extent, delta)))

\* a resize from the left or the top with no test of the extent left: the
\* near edge moves whenever it stays on the page
ResizeNearMoves_anyExtent(start, extent, delta, minimum) ==
  FLeq(Zero, FAdd(start, delta))

\* a resize from the left or the top moves the near edge by delta if the
\* extent left is above the minimum and the edge stays on the page
ResizeNearMoves(start, extent, delta, minimum) ==
  FLess(minimum, FSub(extent, delta)) /\ FLeq(Zero, FAdd(start, delta))

\* newField of the resize listener along one axis: <<start, extent>>
ResizeAxis(start, extent, delta, minimum, far, near) ==
  IF near /\ ResizeNearMoves(start, extent, delta, minimum)
  THEN <<FAdd(start, delta), FSub(extent, delta)>>
  ELSE IF far THEN <<start, ResizeFar(start, extent, delta, minimum)>>
  ELSE <<start, extent>>

\* newField of the resize listener
ResizedField(startField, horizontal, vertical) ==
  [startField EXCEPT !.x = horizontal[1], !.width = horizontal[2],
                     !.y = vertical[1], !.height = vertical[2]]

\* the mousemove listener of a resize: the start field with the dragged
\* corner moved replaces the field
ResizeMove(deltas) ==
  /\ gesture.kind = "resize"
  /\ \E delta \in deltas :
       fields' =
         MapField(gesture.fields, gesture.fieldId,
                  LAMBDA f :
                    ResizedField(
                      gesture.startField,
                      ResizeAxis(gesture.startField.x,
                                 gesture.startField.width,
                                 FDiv(FInt(delta[1]), gesture.page.width),
                                 Dec(5, 100),
                                 Includes(gesture.corner, "right"),
                                 Includes(gesture.corner, "left")),
                      ResizeAxis(gesture.startField.y,
                                 gesture.startField.height,
                                 FDiv(FInt(delta[2]), gesture.page.height),
                                 Dec(3, 100),
                                 Includes(gesture.corner, "bottom"),
                                 Includes(gesture.corner, "top"))))
  /\ UNCHANGED <<selectedField, selectedTool, gesture, currentImageField,
                 reads, now, events, viewVars, signVars, serverVars>>

\* onMouseUp: the listeners of the drag or resize are removed
onMouseUp ==
  /\ gesture # NoGesture
  /\ gesture' = NoGesture
  /\ UNCHANGED <<fields, selectedField, selectedTool, currentImageField,
                 reads, now, events, viewVars, signVars, serverVars>>

\* handleFieldValueChange: typing into the input of a text or date field
handleFieldValueChange(values) ==
  /\ gesture = NoGesture
  /\ events < MaxEvents
  /\ \E i \in DOMAIN fields, newValue \in values :
       /\ fields[i].type \in {"text", "date"}
       /\ fields' = MapField(fields, fields[i].id,
                             LAMBDA f : [f EXCEPT !.value = newValue])
  /\ events' = events + 1
  /\ UNCHANGED <<selectedField, selectedTool, gesture, currentImageField,
                 reads, now, viewVars, signVars, serverVars>>

\* handleCheckboxToggle: a click on a checkbox or radio field
handleCheckboxToggle ==
  /\ gesture = NoGesture
  /\ events < MaxEvents
  /\ \E i \in DOMAIN fields :
       /\ fields[i].type \in {"checkbox", "radio"}
       /\ fields' =
            MapField(fields, fields[i].id,
                     LAMBDA f :
                       [f EXCEPT !.value = IF f.value = "true" THEN "false"
                                           ELSE "true"])
  /\ events' = events + 1
  /\ UNCHANGED <<selectedField, selectedTool, gesture, currentImageField,
                 reads, now, viewVars, signVars, serverVars>>

\* deleteField: the delete button of the selected field
deleteField ==
  /\ gesture = NoGesture
  /\ events < MaxEvents
  /\ FindField(fields, selectedField) # NoField
  /\ fields' = SelectSeq(fields, LAMBDA f : f.id # selectedField)
  /\ selectedField' = 0
  /\ events' = events + 1
  /\ UNCHANGED <<selectedTool, gesture, currentImageField, reads, now,
                 viewVars, signVars, serverVars>>

\* handleImageUpload: a click on an image field remembers the field and
\* opens the file dialog
handleImageUpload ==
  /\ gesture = NoGesture
  /\ \E i \in DOMAIN fields :
       /\ fields[i].type = "image"
       /\ currentImageField' = fields[i].id
  /\ UNCHANGED <<fields, selectedField, selectedTool, gesture, reads, now,
                 events, viewVars, signVars, serverVars>>

\* handleImageFileSelect: an image file is chosen and a FileReader starts
\* reading it; its onload holds the fields of this render
handleImageFileSelect ==
  /\ gesture = NoGesture
  /\ currentImageField # 0
  /\ Cardinality(reads) < MaxReads
  /\ reads' = reads \cup {[fields |-> fields, imageData |-> "data:image/png"]}
  /\ UNCHANGED <<fields, selectedField, selectedTool, gesture,
                 currentImageField, now, events, viewVars, signVars,
                 serverVars>>

\* reader.onload: the read completes and the image data becomes the value
\* of the remembered field, in the fields the listener holds
ReadComplete ==
  /\ \E read \in reads :
       /\ reads' = reads \ {read}
       /\ IF currentImageField # 0
          THEN /\ fields' = MapField(read.fields, currentImageField,
                                     LAMBDA f :
                                       [f EXCEPT !.value = read.imageData])
               /\ currentImageField' = 0
          ELSE UNCHANGED <<fields, currentImageField>>
  /\ UNCHANGED <<selectedField, selectedTool, gesture, now, events, viewVars,
                 signVars, serverVars>>

\* the box of the 612x792 example
StdBox ==
  [x |-> Dec(1, 10), y |-> Dec(1, 10), width |-> Dec(2, 10),
   height |-> Dec(5, 100)]

FieldTypes == {"signature", "text", "date", "checkbox", "radio", "image"}

Png(w, h) == ImageValue("image/png", TRUE, w, h)

\* the value a field of the type carries when filled in
FilledValue(type) ==
  CASE type = "signature" -> NoValue
    [] type = "text"      -> TextValue(<<72, 105>>)
    [] type = "date"      -> TextValue(<<50, 48, 50, 53>>)
    [] type = "checkbox"  -> BoolValue(TRUE)
    [] type = "radio"     -> BoolValue(TRUE)
    [] type = "image"     -> Png(800, 400)

\* the fields of a batch: one of every type on page 1, a checkbox on each
\* other page and on the page after the last, a text the font cannot encode
\* on page 1 and one on the page after the last
FieldSet ==
  {Field(t, 1, StdBox, FilledValue(t)) : t \in FieldTypes}
  \cup {Field("checkbox", p, StdBox, BoolValue(TRUE)) : p \in 2..(MaxPages + 1)}
  \cup {Field("text", p, StdBox, TextValue(<<7>>)) : p \in {1, MaxPages + 1}}

\* values the type tests tell apart: empty, false, non-ASCII text, an
\* unsupported image format, image data that fails to embed
ValueSet ==
  {Field("text", 1, StdBox, v) : v \in {NoValue, TextValue(<<10003>>)}}
  \cup {Field(t, 1, StdBox, BoolValue(FALSE)) : t \in {"checkbox", "radio"}}
  \cup {Field("image", 1, StdBox, v) :
          v \in {NoValue, ImageValue("image/gif", TRUE, 11, 25),
                 ImageValue("image/png", FALSE, 0, 0)}}

Batches(fieldSet) == UNION {[1..n -> fieldSet] : n \in 1..MaxFields}

LetterPdf(n) == Pdf(TRUE, TRUE, [p \in 1..n |-> Letter])

SignaturePng == [given |-> TRUE, decodes |-> TRUE, width |-> 800, height |-> 400]

Request(pdfId, pdf, signature, allFields) ==
  [pdfId |-> pdfId, pdf |-> pdf, signature |-> signature,
   allFields |-> allFields]

\* requests that pass validation, and one of each kind that does not or that
\* lacks the document or the signature
Requests ==
  {Request("contract", LetterPdf(n), SignaturePng, fs) :
     n \in 1..MaxPages, fs \in Batches(FieldSet)}
  \cup {Request("contract", LetterPdf(1), SignaturePng, <<f>>) : f \in ValueSet}
  \cup {Request("", LetterPdf(1), SignaturePng,
                <<Field("checkbox", 1, StdBox, BoolValue(TRUE))>>),
        Request("contract", LetterPdf(1), SignaturePng, <<>>),
        Request("contract", Pdf(TRUE, FALSE, <<>>), SignaturePng,
                <<Field("checkbox", 1, StdBox, BoolValue(TRUE))>>),
        Request("contract", LetterPdf(1),
                [given |-> TRUE, decodes |-> FALSE, width |-> 0, height |-> 0],
                <<Field("signature", 1, StdBox, NoValue)>>),
        Request("contract", LetterPdf(1), NoSignature,
                <<Field("signature", 1, StdBox, NoValue)>>),
        Request("contract", Pdf(FALSE, FALSE, <<>>), SignaturePng,
                <<Field("signature", 1, StdBox, NoValue)>>)}

\* sides of check marks and radio buttons, as fractions of the page: from
\* 1.2pt to 979pt on a 612pt wide page
MarkFractions ==
  {Dec(2, 1000), Dec(2, 100), Dec(3, 100), Dec(4, 100), FInt(1), Dec(16, 10)}

MarkBoxes ==
  {[x |-> Dec(1, 10), y |-> Dec(1, 10), width |-> f, height |-> f] :
     f \in MarkFractions}
  \cup {StdBox}

MarkFields ==
  {Field(t, 1, b, BoolValue(TRUE)) : t \in {"checkbox", "radio"}, b \in MarkBoxes}

\* requests of checkbox and radio fields of every size
MarkRequests ==
  {Request("contract", LetterPdf(1), NoSignature, fs) :
     fs \in Batches(MarkFields)}

Init ==
  /\ HandlerIdle
  /\ conv = IdleConv
  /\ fit = IdleFit

Next ==
  \/ Receive(Requests)
  \/ ProcessField
  \/ Save
  \/ Audit

Spec == Init /\ [][Next]_vars

NextMarks ==
  \/ Receive(MarkRequests)
  \/ ProcessField
  \/ Save
  \/ Audit

SpecMarks == Init /\ [][NextMarks]_vars

\* ------------------------------------------------------------------------
\* convertCoordinates applied to every coordinate and page size
\* ------------------------------------------------------------------------

\* signing requests of two documents, and one that fails validation
AuditRequests ==
  {Request(id, LetterPdf(1), NoSignature,
           <<Field("checkbox", 1, StdBox, BoolValue(b))>>) :
     id \in {"contract", "lease"}, b \in BOOLEAN}
  \cup {Request("", LetterPdf(1), NoSignature,
                <<Field("checkbox", 1, StdBox, BoolValue(TRUE))>>)}

\* request after request; audit_trail and signed-pdfs persist
NextAudit ==
  \/ Receive(AuditRequests)
  \/ ProcessField
  \/ Save
  \/ Audit
  \/ NextRequest

SpecAudit == Init /\ [][NextAudit]_vars

\* signing requests of one document
VerifyRequests ==
  {Request("contract", LetterPdf(1), NoSignature,
           <<Field("checkbox", 1, StdBox, BoolValue(TRUE))>>)}

\* signing requests, /verify requests at any moment, and the stored files
\* changing outside the handlers
NextVerify ==
  \/ Receive(VerifyRequests)
  \/ ProcessField
  \/ Save
  \/ Audit
  \/ NextRequest
  \/ Verify
  \/ Tamper
  \/ Remove

SpecVerify == Init /\ [][NextVerify]_vars

\* boxes the frontend would not produce: zero width, negative height,
\* fractions outside [0, 1], a box reaching past the page
EdgeBoxes ==
  {[x |-> Dec(1, 10), y |-> Dec(1, 10), width |-> Zero,
    height |-> Dec(5, 100)],
   [x |-> Dec(1, 10), y |-> Dec(1, 10), width |-> Dec(2, 10),
    height |-> FNeg(Dec(5, 100))],
   [x |-> Dec(15, 10), y |-> FNeg(Dec(5, 10)), width |-> Dec(2, 10),
    height |-> Dec(5, 100)],
   [x |-> Dec(9, 10), y |-> Dec(9, 10), width |-> Dec(5, 10),
    height |-> Dec(5, 10)]}

EdgeFields ==
  {Field(t, 1, b, FilledValue(t)) : t \in FieldTypes, b \in EdgeBoxes}

\* batches of a field with such a box and an ordinary field after it
EdgeRequests ==
  {Request("contract", LetterPdf(1), SignaturePng,
           <<f, Field("checkbox", 1, StdBox, BoolValue(TRUE))>>) :
     f \in EdgeFields}

NextEdge ==
  \/ Receive(EdgeRequests)
  \/ ProcessField
  \/ Save
  \/ Audit

SpecEdge == Init /\ [][NextEdge]_vars

\* a box 15.84pt high on a Letter page, whose text is not capped at 16pt
LowBox ==
  [x |-> Dec(1, 10), y |-> Dec(1, 10), width |-> Dec(2, 10),
   height |-> Dec(2, 100)]

\* text and date fields: high and low boxes; plain, non-ASCII and empty
\* values; and a text the font cannot encode
TextFields ==
  {Field(t, 1, b, v) :
     t \in {"text", "date"}, b \in {StdBox, LowBox},
     v \in {TextValue(<<72, 105>>), TextValue(<<72, 10003>>), NoValue}}
  \cup {Field("text", 1, StdBox, TextValue(<<7>>))}

TextRequests ==
  {Request("contract", LetterPdf(1), NoSignature, fs) :
     fs \in Batches(TextFields)}

NextText ==
  \/ Receive(TextRequests)
  \/ ProcessField
  \/ Save
  \/ Audit

SpecText == Init /\ [][NextText]_vars

\* boxes of marks: 12.24pt square, the 122.4pt x 39.6pt example, a low box
\* and the whole page
ShapeBoxes ==
  {[x |-> Dec(1, 10), y |-> Dec(1, 10), width |-> Dec(2, 100),
    height |-> Dec(2, 100)],
   StdBox, LowBox,
   [x |-> Zero, y |-> Zero, width |-> FInt(1), height |-> FInt(1)]}

\* checkbox and radio fields, checked and unchecked
ShapeFields ==
  {Field(t, 1, b, BoolValue(v)) :
     t \in {"checkbox", "radio"}, b \in ShapeBoxes, v \in BOOLEAN}

ShapeRequests ==
  {Request("contract", LetterPdf(n), NoSignature, <<f>>) :
     n \in 1..MaxPages, f \in ShapeFields}

NextShapes ==
  \/ Receive(ShapeRequests)
  \/ ProcessField
  \/ Save
  \/ Audit

SpecShapes == Init /\ [][NextShapes]_vars

\* fields no branch of the loop draws: empty text and date, an image field
\* with no value, with a GIF, with data that fails to embed, and a field of
\* a type the loop does not know
SkippedFields ==
  {Field(t, 1, StdBox, NoValue) : t \in {"text", "date", "image"}}
  \cup {Field("image", 1, StdBox, v) :
          v \in {ImageValue("image/gif", TRUE, 11, 25),
                 ImageValue("image/png", FALSE, 0, 0)}}
  \cup {Field("stamp", 1, StdBox, TextValue(<<72, 105>>))}

\* batches of such a field before or after a field that is drawn
SkippedRequests ==
  {Request("contract", LetterPdf(1), NoSignature, fs) :
     fs \in UNION {{<<f, g>>, <<g, f>>} :
                     f \in SkippedFields,
                     g \in {Field(t, 1, StdBox, FilledValue(t)) :
                              t \in {"checkbox", "text", "image"}}}}

NextSkipped ==
  \/ Receive(SkippedRequests)
  \/ ProcessField
  \/ Save
  \/ Audit

SpecSkipped == Init /\ [][NextSkipped]_vars

\* checkbox fields on every page from -1 to the page after the last; page 0
\* is also the field with no page
PageFields ==
  {Field("checkbox", p, StdBox, BoolValue(TRUE)) : p \in (-1)..(MaxPages + 1)}

\* such a field alone, or followed by a field on page 1
PageRequests ==
  {Request("contract", LetterPdf(n), NoSignature, fs) :
     n \in 1..MaxPages,
     fs \in UNION {{<<f>>, <<f, Field("radio", 1, StdBox, BoolValue(TRUE))>>} :
                     f \in PageFields}}

NextPages ==
  \/ Receive(PageRequests)
  \/ ProcessField
  \/ Save
  \/ Audit

SpecPages == Init /\ [][NextPages]_vars

\* image values: a PNG, and JPEG data whose frame header declares a zero
\* height or a zero width, which embeds with these dimensions
ImageValues ==
  {Png(800, 400), ImageValue("image/jpeg", TRUE, 400, 0),
   ImageValue("image/jpg", TRUE, 0, 300)}

\* image fields with these values, a signature field, and a GIF
ImageFields ==
  {Field("image", 1, StdBox, v) : v \in ImageValues}
  \cup {Field("signature", 1, StdBox, NoValue),
        Field("image", 1, StdBox, ImageValue("image/gif", TRUE, 11, 25))}

ImageRequests ==
  {Request("contract", LetterPdf(1), s, fs) :
     s \in {SignaturePng, NoSignature}, fs \in Batches(ImageFields)}

NextImages ==
  \/ Receive(ImageRequests)
  \/ ProcessField
  \/ Save
  \/ Audit

SpecImages == Init /\ [][NextImages]_vars

\* signing requests of two documents and one request of each kind that
\* validation, PDFDocument.load or embedPng rejects (an empty allFields also
\* stands for a missing one and for one that is not an array)
RejectedRequests ==
  {Request(id, LetterPdf(1), NoSignature,
           <<Field("checkbox", 1, StdBox, BoolValue(TRUE))>>) :
     id \in {"contract", "lease"}}
  \cup {Request("", LetterPdf(1), NoSignature,
                <<Field("checkbox", 1, StdBox, BoolValue(TRUE))>>),
        Request("contract", LetterPdf(1), NoSignature, <<>>),
        Request("contract", Pdf(TRUE, FALSE, <<>>), NoSignature,
                <<Field("checkbox", 1, StdBox, BoolValue(TRUE))>>),
        Request("contract", LetterPdf(1),
                [given |-> TRUE, decodes |-> FALSE, width |-> 0, height |-> 0],
                <<Field("signature", 1, StdBox, NoValue)>>)}

\* request after request; audit_trail and signed-pdfs persist
NextRejected ==
  \/ Receive(RejectedRequests)
  \/ ProcessField
  \/ Save
  \/ Audit
  \/ NextRequest

SpecRejected == Init /\ [][NextRejected]_vars

\* two signing requests for the same pdfId with different fields
ConcurrentRequests ==
  {Request("contract", LetterPdf(1), NoSignature,
           <<Field(t, 1, StdBox, BoolValue(b))>>) :
     t \in {"checkbox", "radio"}, b \in BOOLEAN}

\* requests handled concurrently: a handler suspended at an await lets the
\* next request in
NextConcurrent ==
  \/ Receive(ConcurrentRequests)
  \/ ProcessField
  \/ Save
  \/ Audit
  \/ NextRequest
  \/ Park
  \/ Resume

SpecConcurrent == Init /\ [][NextConcurrent]_vars

\* offsets of clicks inside the page at scale 1.0, in pixels: near the top
\* left corner and near the bottom right corner
ClickPoints == {<<60, 84>>, <<560, 800>>}

\* pointer movements since the mouse press, in pixels: short ones and ones
\* longer than the page
PointerDeltas == {<<-700, -900>>, <<-40, -25>>, <<40, 25>>, <<700, 900>>}

\* placing, dragging and resizing text fields on the sample document
NextLayout ==
  \/ loadPDF
  \/ renderAllPages
  \/ setSelectedTool({"text"})
  \/ handlePageClick(ClickPoints)
  \/ handleFieldMouseDown
  \/ DragMove(PointerDeltas)
  \/ handleResize
  \/ ResizeMove(PointerDeltas)
  \/ onMouseUp

SpecLayout == Init /\ [][NextLayout]_vars

\* placing, editing, deleting, dragging and resizing fields while image
\* files are read
NextStore ==
  \/ loadPDF
  \/ renderAllPages
  \/ setSelectedTool({"text", "checkbox", "image"})
  \/ handlePageClick({<<60, 84>>})
  \/ handleFieldValueChange({"Hi"})
  \/ handleCheckboxToggle
  \/ deleteField
  \/ handleFieldMouseDown
  \/ DragMove({<<40, 25>>})
  \/ handleResize
  \/ ResizeMove({<<40, 25>>})
  \/ onMouseUp
  \/ handleImageUpload
  \/ handleImageFileSelect
  \/ ReadComplete

SpecStore == Init /\ [][NextStore]_vars

\* zooming in and out while pages are rendered
NextZoom ==
  \/ loadPDF
  \/ renderAllPages
  \/ ZoomIn
  \/ ZoomOut

SpecZoom == Init /\ [][NextZoom]_vars

\* drawing a signature, placing fields and signing
NextSign ==
  \/ loadPDF
  \/ renderAllPages
  \/ setSelectedTool({"signature", "text"})
  \/ handlePageClick({<<60, 84>>})
  \/ handleFieldValueChange({"Hi"})
  \/ saveSignature
  \/ handleSignPDF
  \/ Answer

SpecSign == Init /\ [][NextSign]_vars

InitConvert ==
  /\ \E c \in Coordinates, p \in PageSizes :
       conv = [coordinate |-> c, pageWidth |-> p.width,
               pageHeight |-> p.height, returned |-> FALSE, box |-> NoBox]
  /\ fit = IdleFit
  /\ HandlerIdle

CallConvert ==
  /\ ~conv.returned
  /\ conv' = [conv EXCEPT
       !.returned = TRUE,
       !.box = convertCoordinates(conv.coordinate, conv.pageWidth,
                                  conv.pageHeight)]
  /\ UNCHANGED <<fit, handlerVars, parked, clientVars>>

NextConvert == CallConvert

SpecConvert == InitConvert /\ [][NextConvert]_vars

\* ------------------------------------------------------------------------
\* fitImageInBox applied to every image size and destination box
\* ------------------------------------------------------------------------

InitFit ==
  /\ \E iw \in ImgSides, ih \in ImgSides, bw \in BoxSides, bh \in BoxSides,
        o \in BoxOrigins :
       fit = [imgWidth |-> iw, imgHeight |-> ih, boxWidth |-> bw,
              boxHeight |-> bh, boxX |-> o.x, boxY |-> o.y,
              returned |-> FALSE, fitDims |-> NoBox]
  /\ conv = IdleConv
  /\ HandlerIdle

CallFit ==
  /\ ~fit.returned
  /\ fit' = [fit EXCEPT
       !.returned = TRUE,
       !.fitDims = fitImageInBox(fit.imgWidth, fit.imgHeight, fit.boxWidth,
                                 fit.boxHeight, fit.boxX, fit.boxY)]
  /\ UNCHANGED <<conv, handlerVars, parked, clientVars>>

NextFit == CallFit

SpecFit == InitFit /\ [][NextFit]_vars

\* ------------------------------------------------------------------------
\* Properties of convertCoordinates (checked under SpecConvert)
\* ------------------------------------------------------------------------

\* |a - b| <= bound * 2^-k
Within(a, b, bound, k) == FLeq(FAbs(FSub(a, b)), FScale(bound, -k))

\* the top edge of the converted box, as the source would add it up
TopEdge == FAdd(conv.box.y, conv.box.height)

\* pageH - box.y * pageH
FlippedTop ==
  FSub(conv.pageHeight, FMul(conv.coordinate.y, conv.pageHeight))

\* pageH + |box.y * pageH| + |box.height * pageH|: the magnitude of the
\* numbers the transform adds and subtracts
FlipMagnitude ==
  FAdd(FAdd(conv.pageHeight,
            FAbs(FMul(conv.coordinate.y, conv.pageHeight))),
       FAbs(FMul(conv.coordinate.height, conv.pageHeight)))

\* C1 as stated: for every box and page size the top edge y + height of the
\* converted box equals pageH - box.y * pageH.
C1_TopEdgeExact == conv.returned => TopEdge = FlippedTop

\* C1, amended: for every box and page size the top edge y + height of the
\* converted box equals pageH - box.y * pageH up to the rounding of the
\* additions: the two differ by at most
\* 2^-50 * (pageH + |box.y * pageH| + |box.height * pageH|).
C1_TopEdgeWithinRounding ==
  conv.returned => Within(TopEdge, FlippedTop, FlipMagnitude, 50)

\* C1 witness: a converted box whose top edge is off pageH - box.y * pageH by
\* a rounding error.
C1_Witness == conv.returned /\ TopEdge # FlippedTop

FullPage == [x |-> Zero, y |-> Zero, width |-> FInt(1), height |-> FInt(1)]

\* C2: the full-page box x=0, y=0, width=1, height=1 converts to exactly
\* {x: 0, y: 0, width: pageW, height: pageH}, for every page size.
C2_FullPageExact ==
  (conv.returned /\ conv.coordinate = FullPage)
    => conv.box = [x |-> Zero, y |-> Zero,
                   width |-> conv.pageWidth, height |-> conv.pageHeight]

\* C2 witness: the full-page box has been converted on the A4 sample page,
\* whose sides are not integers.
C2_Witness ==
  /\ conv.returned
  /\ conv.coordinate = FullPage
  /\ conv.pageWidth = A4.width
  /\ conv.pageHeight = A4.height

ExampleField ==
  [x |-> Dec(1, 10), y |-> Dec(1, 10), width |-> Dec(2, 10),
   height |-> Dec(5, 100)]

ExampleBox ==
  [x |-> Dec(612, 10), y |-> Dec(6732, 10), width |-> Dec(1224, 10),
   height |-> Dec(396, 10)]

\* C3: on a 612x792 page the field {x: 0.1, y: 0.1, width: 0.2, height: 0.05}
\* converts to {x: 61.2, y: 673.2, width: 122.4, height: 39.6}.
C3_LetterExample ==
  (/\ conv.returned
   /\ conv.coordinate = ExampleField
   /\ conv.pageWidth = Letter.width
   /\ conv.pageHeight = Letter.height)
    => conv.box = ExampleBox

\* C3 witness: the example field has been converted on the 612x792 page.
C3_Witness ==
  /\ conv.returned
  /\ conv.coordinate = ExampleField
  /\ conv.pageWidth = Letter.width
  /\ conv.pageHeight = Letter.height
  /\ conv.box.y = Dec(6732, 10)

\* ------------------------------------------------------------------------
\* Properties of fitImageInBox (checked under SpecFit)
\* ------------------------------------------------------------------------

\* C4 as stated: the returned rectangle has the content's aspect ratio,
\* drawWidth * contentHeight == drawHeight * contentWidth.
C4_RatioExact ==
  fit.returned =>
    FMul(fit.fitDims.width, fit.imgHeight)
      = FMul(fit.fitDims.height, fit.imgWidth)

\* C4, amended: the returned rectangle has the content's aspect ratio up to
\* rounding: drawWidth * contentHeight and drawHeight * contentWidth differ
\* by at most 2^-50 of their size.
C4_RatioWithinRounding ==
  fit.returned =>
    Within(FMul(fit.fitDims.width, fit.imgHeight),
           FMul(fit.fitDims.height, fit.imgWidth),
           FMul(fit.fitDims.width, fit.imgHeight), 50)

\* C4 witness: a fitted rectangle whose cross products differ by a rounding
\* error, for a content that is not of the box's shape.
C4_Witness ==
  /\ fit.returned
  /\ FMul(fit.fitDims.width, fit.imgHeight)
       # FMul(fit.fitDims.height, fit.imgWidth)
  /\ fit.fitDims.width # fit.boxWidth

LeftMargin == FSub(fit.fitDims.x, fit.boxX)

RightMargin ==
  FSub(FAdd(fit.boxX, fit.boxWidth), FAdd(fit.fitDims.x, fit.fitDims.width))

BottomMargin == FSub(fit.fitDims.y, fit.boxY)

TopMargin ==
  FSub(FAdd(fit.boxY, fit.boxHeight), FAdd(fit.fitDims.y, fit.fitDims.height))

\* |boxX| + |boxWidth| + |drawWidth| and |boxY| + |boxHeight| + |drawHeight|: the
\* magnitudes of the numbers the margins are computed from
XMagnitude ==
  FAdd(FAdd(FAbs(fit.boxX), FAbs(fit.boxWidth)), FAbs(fit.fitDims.width))

YMagnitude ==
  FAdd(FAdd(FAbs(fit.boxY), FAbs(fit.boxHeight)), FAbs(fit.fitDims.height))

\* C5 as stated: the returned rectangle is centered in the box on both axes,
\* drawX - boxX == (boxX + boxWidth) - (drawX + drawWidth) and the same
\* vertically.
C5_CenteredExact ==
  fit.returned => (LeftMargin = RightMargin /\ BottomMargin = TopMargin)

\* C5, amended: the returned rectangle is centered in the box on both axes up
\* to rounding, for a content of nonzero size: the two margins of an axis
\* differ by at most 2^-49 * (|boxX| + |boxWidth| + |drawWidth|),
\* respectively 2^-49 * (|boxY| + |boxHeight| + |drawHeight|).
C5_CenteredWithinRounding ==
  fit.returned =>
    /\ Within(LeftMargin, RightMargin, XMagnitude, 49)
    /\ Within(BottomMargin, TopMargin, YMagnitude, 49)

\* C5 witness: a fitted rectangle narrower than its box whose left and right
\* margins differ by a rounding error.
C5_Witness ==
  /\ fit.returned
  /\ FLess(fit.fitDims.width, FScale(fit.boxWidth, -1))
  /\ LeftMargin # RightMargin

\* C6 as stated: the returned rectangle lies entirely within the box and
\* touches it on one axis: drawWidth <= boxWidth, drawHeight <= boxHeight,
\* boxX <= drawX, boxY <= drawY, and drawWidth == boxWidth or drawHeight ==
\* boxHeight.
C6_ContainedExact ==
  fit.returned =>
    /\ FLeq(fit.fitDims.width, fit.boxWidth)
    /\ FLeq(fit.fitDims.height, fit.boxHeight)
    /\ FLeq(fit.boxX, fit.fitDims.x)
    /\ FLeq(fit.boxY, fit.fitDims.y)
    /\ (fit.fitDims.width = fit.boxWidth \/ fit.fitDims.height = fit.boxHeight)

\* C6, amended: the returned rectangle lies within the box and touches it on
\* one axis up to rounding: drawWidth <= boxWidth * (1 + 2^-51), drawHeight
\* <= boxHeight * (1 + 2^-51), drawX >= boxX - 2^-51 * (|boxX| + boxWidth),
\* drawY >= boxY - 2^-51 * (|boxY| + boxHeight), and drawWidth is within
\* 2^-51 * boxWidth of boxWidth or drawHeight within 2^-51 * boxHeight of
\* boxHeight.
C6_ContainedWithinRounding ==
  fit.returned =>
    /\ FLeq(fit.fitDims.width, FAdd(fit.boxWidth, FScale(fit.boxWidth, -51)))
    /\ FLeq(fit.fitDims.height,
            FAdd(fit.boxHeight, FScale(fit.boxHeight, -51)))
    /\ FLeq(FSub(fit.boxX,
                 FScale(FAdd(FAbs(fit.boxX), fit.boxWidth), -51)),
            fit.fitDims.x)
    /\ FLeq(FSub(fit.boxY,
                 FScale(FAdd(FAbs(fit.boxY), fit.boxHeight), -51)),
            fit.fitDims.y)
    /\ \/ Within(fit.fitDims.width, fit.boxWidth, fit.boxWidth, 51)
       \/ Within(fit.fitDims.height, fit.boxHeight, fit.boxHeight, 51)

\* C6 witness: a fitted rectangle that exceeds its box by a rounding error
\* on the axis that fixes the scale and is smaller than the box on the
\* other.
C6_Witness ==
  /\ fit.returned
  /\ \/ /\ FLess(fit.boxWidth, fit.fitDims.width)
        /\ FLess(fit.fitDims.height, FScale(fit.boxHeight, -1))
     \/ /\ FLess(fit.boxHeight, fit.fitDims.height)
        /\ FLess(fit.fitDims.width, FScale(fit.boxWidth, -1))

ExampleFit ==
  [imgWidth |-> FInt(800), imgHeight |-> FInt(400), boxWidth |-> FInt(200),
   boxHeight |-> FInt(200), boxX |-> Zero, boxY |-> Zero]

FitArgs ==
  [imgWidth |-> fit.imgWidth, imgHeight |-> fit.imgHeight,
   boxWidth |-> fit.boxWidth, boxHeight |-> fit.boxHeight,
   boxX |-> fit.boxX, boxY |-> fit.boxY]

\* C7: content 800x400 in a 200x200 box at (0, 0) is drawn 200x100 at
\* (0, 50), the scale being the smaller axis scale 0.25.
C7_ContainExample ==
  (fit.returned /\ FitArgs = ExampleFit)
    => /\ fit.fitDims = [x |-> Zero, y |-> FInt(50), width |-> FInt(200),
                         height |-> FInt(100)]
       /\ FDiv(fit.fitDims.width, fit.imgWidth) = Dec(25, 100)
       /\ FDiv(fit.fitDims.height, fit.imgHeight) = Dec(25, 100)

\* C7 witness: the 800x400 content has been fitted into the 200x200 box at
\* the origin.
C7_Witness == fit.returned /\ FitArgs = ExampleFit

\* ------------------------------------------------------------------------
\* Properties of the check marks and radio buttons drawn by /sign-pdf
\* (checked under SpecMarks)
\* ------------------------------------------------------------------------

\* the drawing calls of the kind, by position in draws
DrawsLike(op, style) ==
  {j \in 1..Len(draws) : draws[j].op = op /\ draws[j].style = style}

CheckboxBorders == DrawsLike("drawRectangle", "border")

RadioBorders == DrawsLike("drawEllipse", "border")

\* min(boxWidth, boxHeight) of the absolute box of a drawing call
BoxSize(d) == FMin(d.box.width, d.box.height)

\* the box size lies in the sweep 1pt..1000pt
InSweep(d) == FLeq(FInt(1), BoxSize(d)) /\ FLeq(BoxSize(d), FInt(1000))

\* the larger box never gets the smaller mark (the mark size is the third
\* argument of the call)
MarkMonotonic(js) ==
  \A j1 \in js, j2 \in js :
    FLeq(BoxSize(draws[j1]), BoxSize(draws[j2]))
      => FLeq(draws[j1].at[3], draws[j2].at[3])

BoxCenter(d) ==
  <<FAdd(d.box.x, FDiv(d.box.width, Two)),
    FAdd(d.box.y, FDiv(d.box.height, Two))>>

BeyondLastPage(k) == req.allFields[k].page > Len(pdfDoc)

\* field k of the batch names one of the pages 1..N of the document
OnExistingPage(k) == req.allFields[k].page \in 1..Len(pdfDoc)

\* the drawing calls issued for field k
DrawsOf(k) == SelectSeq(draws, LAMBDA d : d.field = k)

\* the fields whose loop iteration has completed
Iterated == 1..(fieldIndex - 1)

\* what the policy of its type draws for field k on the page it names
PolicyDraws(k) ==
  RenderField(k, req.allFields[k], pdfDoc[req.allFields[k].page],
              signatureImage).draws

\* C10: a field whose page number is greater than the page count N is
\* skipped without raising (nothing is drawn for it and it is never the
\* field that raised), it never makes the request fail (an error response
\* comes from validation, from the rendering of a field on an existing
\* page, from the file system or from the database), and every other field
\* of the batch on a page in 1..N is still applied to its page: while the
\* loop runs and when the request has succeeded, the drawing calls of each
\* such field the loop has passed are exactly those of its policy, all on
\* its page.
C10_SkipBeyondLastPage ==
  pc # "idle" =>
    /\ \A k \in 1..Len(req.allFields) :
         BeyondLastPage(k) => (DrawsOf(k) = <<>> /\ raisedAt # k)
    /\ (pc = "done" /\ ~resp.success) =>
         \/ resp.status = 400
         \/ resp.error \in {"writeFile", "insertOne"}
         \/ (raisedAt # 0 /\ OnExistingPage(raisedAt))
    /\ resp.success => fieldIndex = Len(req.allFields) + 1
    /\ (pc = "fields" \/ resp.success) =>
         \A k \in Iterated :
           OnExistingPage(k) =>
             /\ DrawsOf(k) = PolicyDraws(k)
             /\ \A j \in 1..Len(DrawsOf(k)) :
                  DrawsOf(k)[j].page = req.allFields[k].page

\* C10 witness: a request has succeeded whose batch has a field beyond the
\* last page followed by a field on an existing page, which was drawn.
C10_Witness ==
  /\ pc = "done"
  /\ resp.success
  /\ \E k1 \in 1..Len(req.allFields), k2 \in 1..Len(req.allFields) :
       /\ k1 < k2
       /\ BeyondLastPage(k1)
       /\ OnExistingPage(k2)
       /\ DrawsOf(k2) # <<>>

\* ------------------------------------------------------------------------
\* Properties of a failing field of /sign-pdf (checked under Spec)
\* ------------------------------------------------------------------------

\* the signed PDF of the request being handled is in signed-pdfs
SignedPdfWritten ==
  \E f \in files : f.name = signedFilename /\ f.bytes.draws = draws

\* C11: when the rendering of one field raises, whatever its type, every
\* later field of the batch is still processed and the request still
\* produces a signed PDF: a request whose field raised does not end before
\* the loop has passed every field and the signed file is written, unless
\* the file system itself fails.
C11_FailureNeverBlocks ==
  (pc = "done" /\ raisedAt # 0) =>
    /\ fieldIndex = Len(req.allFields) + 1
    /\ (SignedPdfWritten \/ resp.error = "writeFile")

\* ------------------------------------------------------------------------
\* Properties of the audit trail (checked under SpecAudit)
\* ------------------------------------------------------------------------

\* the step answers a /sign-pdf request with success: true
AnswersSuccess == resp'.success /\ ~resp.success

\* C12: every signing operation is logged: the step that answers success:
\* true inserts exactly one audit_trail record, which carries the request's
\* pdfId and the originalHash and signedHash of the response; no other step
\* of a request, and so no request that answers with an error, inserts or
\* removes a record.
C12_SigningLogged ==
  [][IF AnswersSuccess
     THEN /\ Len(audit') = Len(audit) + 1
          /\ SubSeq(audit', 1, Len(audit)) = audit
          /\ audit'[Len(audit')].pdfId = req.pdfId
          /\ audit'[Len(audit')].originalHash = resp'.body[1].originalHash
          /\ audit'[Len(audit')].signedHash = resp'.body[1].signedHash
     ELSE audit' = audit]_vars

\* C12 witness: two requests for different documents have answered success
\* and the audit trail holds their two records.
C12_Witness ==
  /\ pc = "done"
  /\ resp.success
  /\ Len(audit) = 2
  /\ audit[1].pdfId # audit[2].pdfId
  /\ audit[2].signedHash = resp.body[1].signedHash

\* ------------------------------------------------------------------------
\* Properties of /verify (checked under SpecVerify)
\* ------------------------------------------------------------------------

\* the step answers a /verify request (with an answer other than the last)
AnswersVerify == verified' # verified

\* the files stored under the name the answer is about
StoredAs(pdfUrl) == {f \in files : f.name = pdfUrl}

\* the bytes /sign-pdf wrote when it recorded the hash (SHA-256 taken to be
\* free of collisions)
SignedBytes(hash) == hash.sha256

\* C13: /verify answers isValid: true exactly when the SHA-256 hash of the
\* bytes now stored under the named signed file equals expectedHash; asked
\* with the signedHash the audit trail recorded for the file, it answers
\* isValid: false whenever the stored bytes are no longer those written at
\* signing; and a missing file yields success: false with status 500.
C13_VerifyComparesStoredHash ==
  [][AnswersVerify =>
       IF StoredAs(verified'.pdfUrl) = {}
       THEN verified'.status = 500 /\ ~verified'.success
       ELSE \A f \in StoredAs(verified'.pdfUrl) :
              /\ verified'.status = 200 /\ verified'.success
              /\ verified'.isValid
                   <=> (computeHash(f.bytes) = verified'.expectedHash)
              /\ \A i \in 1..Len(audit) :
                   (/\ audit[i].signedFilename = verified'.pdfUrl
                    /\ audit[i].signedHash = verified'.expectedHash
                    /\ f.bytes # SignedBytes(audit[i].signedHash))
                     => ~verified'.isValid]_vars

\* C13 witness: a signed file was modified after signing and /verify, asked
\* with the signedHash recorded for it, has answered isValid: false.
C13_Witness ==
  /\ verified.success
  /\ ~verified.isValid
  /\ \E i \in 1..Len(audit) :
       /\ audit[i].signedFilename = verified.pdfUrl
       /\ audit[i].signedHash = verified.expectedHash
  /\ \E f \in files : f.name = verified.pdfUrl /\ ~f.bytes.saved

\* ------------------------------------------------------------------------
\* Properties of the order of the drawing calls (checked under Spec)
\* ------------------------------------------------------------------------

\* C14: within one request the fields are applied strictly in the order of
\* allFields, one at a time: every drawing call issued so far belongs to a
\* field the loop has already passed, and the drawing calls of a field all
\* come before those of every later field, image fields (whose embedding is
\* awaited) included.
C14_InputOrder ==
  /\ \A j \in 1..Len(draws) : draws[j].field \in Iterated
  /\ \A j1 \in 1..Len(draws), j2 \in 1..Len(draws) :
       j1 < j2 => draws[j1].field <= draws[j2].field

\* C14 witness: an image field was drawn, then the field after it.
C14_Witness ==
  \E j \in 1..(Len(draws) - 1) :
    /\ draws[j].op = "drawImage"
    /\ draws[j].style = "image"
    /\ draws[j + 1].field = draws[j].field + 1

\* ------------------------------------------------------------------------
\* Properties of boxes outside the page (checked under SpecEdge)
\* ------------------------------------------------------------------------

\* the formula of the transform applied to the numbers of the field as they
\* came, on the page the field names
Unclamped(field) ==
  [x      |-> FMul(field.x, pdfDoc[field.page].width),
   y      |-> FSub(pdfDoc[field.page].height,
                   FAdd(FMul(field.y, pdfDoc[field.page].height),
                        FMul(field.height, pdfDoc[field.page].height))),
   width  |-> FMul(field.width, pdfDoc[field.page].width),
   height |-> FMul(field.height, pdfDoc[field.page].height)]

\* the field has a zero or negative side or a fraction outside [0, 1]
OutsideUnitBox(field) ==
  \E v \in {field.x, field.y, field.width, field.height} :
    IsZero(v) \/ v.neg \/ FLess(FInt(1), v)

\* C15: convertCoordinates neither clamps nor validates: every drawing call
\* is computed from the box the formula gives for the field's numbers as
\* they came (a zero width stays zero, a negative height stays negative, a
\* fraction above 1 lands outside the page), every field with such a box
\* that the loop has passed was drawn, and no request is rejected or raises
\* because of it: an error comes only from the file system or the database.
C15_NoClamping ==
  /\ \A j \in 1..Len(draws) :
       draws[j].box = Unclamped(req.allFields[draws[j].field])
  /\ \A k \in Iterated :
       OutsideUnitBox(req.allFields[k]) => DrawsOf(k) # <<>>
  /\ raisedAt = 0
  /\ pc = "done" => (resp.success \/ resp.error \in {"writeFile", "insertOne"})

\* C15 witness: a request has succeeded whose first field has a negative
\* height, drawn from a box of negative height, and whose second field was
\* drawn too.
C15_Witness ==
  /\ pc = "done"
  /\ resp.success
  /\ req.allFields[1].height.neg
  /\ \E j \in 1..Len(draws) : draws[j].field = 1 /\ draws[j].box.height.neg
  /\ DrawsOf(2) # <<>>

\* ------------------------------------------------------------------------
\* Properties of text and date fields (checked under SpecText)
\* ------------------------------------------------------------------------

TextDraws == {j \in 1..Len(draws) : draws[j].op = "drawText"}

\* min(boxHeight * 0.6, 16)
FontSize(box) == FMin(FMul(box.height, SixTenths), Sixteen)

\* boxY + (boxHeight - fontSize) / 2
Baseline(box) == FAdd(box.y, FDiv(FSub(box.height, FontSize(box)), Two))

\* field k is a text or date field with a non-empty value
FilledText(k) ==
  /\ req.allFields[k].type \in {"text", "date"}
  /\ req.allFields[k].value.truthy

\* font size and baseline of every drawText call, and one such call for
\* every text or date field with a non-empty value the loop has passed
TextSizedAndCentered ==
  /\ \A j \in TextDraws :
       /\ draws[j].at[3] = FontSize(draws[j].box)
       /\ draws[j].at[2] = Baseline(draws[j].box)
       /\ FilledText(draws[j].field)
  /\ \A k \in Iterated :
       FilledText(k) =>
         /\ Len(DrawsOf(k)) = 1
         /\ DrawsOf(k)[1].op = "drawText"
         /\ DrawsOf(k)[1].text = sanitizeTextForPdf(req.allFields[k].value.text)

\* C16 as stated: the value of a text or date field is drawn at font size
\* min(boxHeight * 0.6, 16), baseline boxY + (boxHeight - fontSize) / 2, and
\* at an x to the right of the box's left edge (a positive left inset).
C16_TextInset ==
  /\ TextSizedAndCentered
  /\ \A j \in TextDraws : FLess(draws[j].box.x, draws[j].at[1])

\* C16, amended: the value is drawn at font size min(boxHeight * 0.6, 16),
\* baseline boxY + (boxHeight - fontSize) / 2, and at x equal to the box's
\* left edge, with no inset.
C16_TextAtLeftEdge ==
  /\ TextSizedAndCentered
  /\ \A j \in TextDraws : draws[j].at[1] = draws[j].box.x

\* C16 witness: one request has drawn a text below 16pt in a low box and a
\* text capped at 16pt in a high box.
C16_Witness ==
  \E j1 \in TextDraws, j2 \in TextDraws :
    /\ FLess(draws[j1].at[3], Sixteen)
    /\ draws[j2].at[3] = Sixteen
    /\ FLess(Sixteen, FMul(draws[j2].box.height, SixTenths))

\* ------------------------------------------------------------------------
\* Properties of the marks drawn (checked under SpecShapes)
\* ------------------------------------------------------------------------

\* field k is of the type and on a page of the document
FieldOfType(k, type) == req.allFields[k].type = type /\ OnExistingPage(k)

\* the point (px, py) lies in the square <<x, y, size, size>>
InSquare(px, py, sq) ==
  /\ FLeq(sq[1], px) /\ FLeq(px, FAdd(sq[1], sq[3]))
  /\ FLeq(sq[2], py) /\ FLeq(py, FAdd(sq[2], sq[4]))

\* the drawing calls ds are a square border and nothing else
BorderOnly(ds) ==
  Len(ds) = 1 /\ ds[1].op = "drawRectangle" /\ ds[1].style = "border"

\* the drawing calls ds are a square border and two line segments that
\* share an endpoint, all their endpoints in the square
BorderAndTick(ds) ==
  /\ Len(ds) = 3
  /\ ds[1].op = "drawRectangle" /\ ds[1].style = "border"
  /\ ds[2].op = "drawLine" /\ ds[3].op = "drawLine"
  /\ <<ds[2].at[3], ds[2].at[4]>> = <<ds[3].at[1], ds[3].at[2]>>
  /\ <<ds[2].at[1], ds[2].at[2]>> # <<ds[3].at[3], ds[3].at[4]>>
  /\ InSquare(ds[2].at[1], ds[2].at[2], ds[1].at)
  /\ InSquare(ds[2].at[3], ds[2].at[4], ds[1].at)
  /\ InSquare(ds[3].at[3], ds[3].at[4], ds[1].at)

OuterAndInner(ds, ratio) ==
  /\ Len(ds) = 2
  /\ ds[1].op = "drawEllipse" /\ ds[1].style = "border"
  /\ ds[2].op = "drawEllipse" /\ ds[2].style = "fill"
  /\ <<ds[2].at[1], ds[2].at[2]>> = <<ds[1].at[1], ds[1].at[2]>>
  /\ ds[2].at[3] = FMul(ds[1].at[3], ratio)
  /\ ds[2].at[4] = ds[2].at[3]

\* the drawing calls ds are the outer circle and nothing else
OuterOnly(ds) ==
  Len(ds) = 1 /\ ds[1].op = "drawEllipse" /\ ds[1].style = "border"

\* C18: for every radio field on an existing page an inner filled circle is
\* drawn exactly when the value is truthy, concentric with the outer circle
\* and with radius 0.6 times the outer radius.
C18_RadioInnerSixTenths ==
  \A k \in Iterated :
    FieldOfType(k, "radio") =>
      IF req.allFields[k].value.truthy
      THEN OuterAndInner(DrawsOf(k), SixTenths)
      ELSE OuterOnly(DrawsOf(k))

\* ------------------------------------------------------------------------
\* Properties of fields without a rendering policy (checked under
\* SpecSkipped)
\* ------------------------------------------------------------------------

\* the type/value combination of field k has no rendering policy
NoPolicy(k) ==
  LET field == req.allFields[k]
  IN  \/ field.type \in {"text", "date"} /\ ~field.value.truthy
      \/ /\ field.type = "image"
         /\ \/ ~field.value.truthy
            \/ field.value.mime \notin {"image/png", "image/jpeg", "image/jpg"}
            \/ ~field.value.decodes
      \/ field.type \notin FieldTypes

\* C19: a field whose type/value combination has no rendering policy causes
\* no drawing call and is never the field that raised; the batch is not
\* aborted: the request fails only if the file system or the database
\* does, a request that succeeded has passed every field, and every field
\* with a policy that the loop has passed was drawn.
C19_NoPolicySkipped ==
  pc # "idle" =>
    /\ \A k \in 1..Len(req.allFields) :
         NoPolicy(k) => (DrawsOf(k) = <<>> /\ raisedAt # k)
    /\ pc = "done" =>
         (resp.success \/ resp.error \in {"writeFile", "insertOne"})
    /\ resp.success => fieldIndex = Len(req.allFields) + 1
    /\ \A k \in Iterated : ~NoPolicy(k) => DrawsOf(k) # <<>>

\* C19 witness: a request has succeeded whose first field is an image that
\* fails to embed and whose second field was drawn.
C19_Witness ==
  /\ pc = "done"
  /\ resp.success
  /\ req.allFields[1].type = "image"
  /\ req.allFields[1].value.truthy
  /\ ~req.allFields[1].value.decodes
  /\ DrawsOf(1) = <<>>
  /\ DrawsOf(2) # <<>>

\* ------------------------------------------------------------------------
\* Properties of the page test (checked under SpecPages)
\* ------------------------------------------------------------------------

\* C20: no drawing call is ever issued for a field whose 1-based page number
\* is not in 1..N (page 0, a negative page, a missing page, a page after
\* the last): the field is skipped, drawn on no page, and is never the
\* field that raised.
C20_OnlyExistingPages ==
  pc # "idle" =>
    \A k \in 1..Len(req.allFields) :
      ~OnExistingPage(k) => (DrawsOf(k) = <<>> /\ raisedAt # k)

\* ------------------------------------------------------------------------
\* Properties of the callers of fitImageInBox (checked under SpecImages)
\* ------------------------------------------------------------------------

\* the width and height the loop passed to fitImageInBox for the drawImage
\* call d: the dimensions of the embedded signature in the signature branch,
\* the dimensions of the embedded image of the field in the image branch
FitArguments(d) ==
  IF d.style = "signature"
  THEN <<signatureImage.width, signatureImage.height>>
  ELSE <<req.allFields[d.field].value.imgWidth,
         req.allFields[d.field].value.imgHeight>>

\* C21: in /sign-pdf, fitImageInBox is never invoked with imgWidth = 0 or
\* imgHeight = 0, for the signature image and for every image field: every
\* image the loop has fitted and drawn has a non-zero width and height.
C21_NeverZeroDimension ==
  \A j \in 1..Len(draws) :
    draws[j].op = "drawImage" =>
      (FitArguments(draws[j])[1] # 0 /\ FitArguments(draws[j])[2] # 0)

\* ------------------------------------------------------------------------
\* Properties of the loop over allFields (checked under Spec)
\* ------------------------------------------------------------------------

\* the type whose policy issues the drawing call d
PolicyOf(d) ==
  CASE d.op = "drawImage" -> d.style
    [] d.op = "drawText" -> d.style
    [] d.op \in {"drawRectangle", "drawLine"} -> "checkbox"
    [] d.op = "drawEllipse" -> "radio"

\* the most drawing calls the policy of a type issues for one field
PolicyCalls(type) ==
  CASE type = "checkbox" -> 3
    [] type = "radio" -> 2
    [] OTHER -> 1

\* C22: within one /sign-pdf request every element of allFields is visited
\* exactly once, in order, and is rendered by at most one per-type policy:
\* every drawing call belongs to a field whose iteration has run and comes
\* from the policy of that field's type, the calls of a field are contiguous
\* and follow those of the fields before it, and a field has no more calls
\* than one run of its policy issues.
C22_OnePolicyPerField ==
  pc # "idle" =>
    /\ fieldIndex \in 1..(Len(req.allFields) + 1) \/ resp.status = 400
    /\ \A j \in 1..Len(draws) :
         /\ draws[j].field \in Iterated
         /\ PolicyOf(draws[j]) = req.allFields[draws[j].field].type
         /\ \A i \in 1..(j - 1) : draws[i].field <= draws[j].field
    /\ \A k \in Iterated :
         Len(DrawsOf(k)) <= PolicyCalls(req.allFields[k].type)

\* C22 witness: a request of two fields of different types has succeeded
\* and each of the two was drawn.
C22_Witness ==
  /\ pc = "done"
  /\ resp.success
  /\ Len(req.allFields) = 2
  /\ req.allFields[1].type # req.allFields[2].type
  /\ DrawsOf(1) # <<>>
  /\ DrawsOf(2) # <<>>

\* ------------------------------------------------------------------------
\* Properties of the error responses of /sign-pdf (checked under
\* SpecRejected)
\* ------------------------------------------------------------------------

\* C25: a /sign-pdf request answered with status 400 leaves the server
\* state unchanged (the step that answers it writes no file under
\* signed-pdfs and inserts no audit_trail record, and the request had
\* written and drawn nothing before), and the step in which the audit
\* insert fails answers 500, inserts nothing, and leaves the signed file of
\* the request on disk.
C25_RejectionLeavesNoTrace ==
  [][/\ (resp'.status = 400 /\ resp.status # 400) =>
          /\ files' = files
          /\ audit' = audit
          /\ signedFilename' = <<>>
          /\ draws' = <<>>
     /\ (resp'.error = "insertOne" /\ resp.error # "insertOne") =>
          /\ resp'.status = 500
          /\ audit' = audit
          /\ [name |-> signedFilename,
              bytes |-> Bytes(req.pdf, TRUE, draws)] \in files'
    ]_vars

\* C25 witness: a request has been answered with 400 while signed-pdfs holds
\* more files than audit_trail holds records: an earlier request lost its
\* audit insert and left its file.
C25_Witness ==
  /\ pc = "done"
  /\ resp.status = 400
  /\ Cardinality(files) > Len(audit)

\* ------------------------------------------------------------------------
\* Properties of concurrent /sign-pdf requests (checked under
\* SpecConcurrent)
\* ------------------------------------------------------------------------

\* C24: for every audit_trail record, under any interleaving of concurrent
\* /sign-pdf requests, the file stored under the record's signedFilename
\* exists and its SHA-256 hash equals the record's signedHash (nothing
\* outside the server touches the files).
C24_RecordMatchesFile ==
  \A i \in 1..Len(audit) :
    \E f \in files :
      /\ f.name = audit[i].signedFilename
      /\ computeHash(f.bytes) = audit[i].signedHash

\* ------------------------------------------------------------------------
\* Properties of the geometry of the field store (checked under SpecLayout)
\* ------------------------------------------------------------------------

\* C26: after any sequence of place, drag and resize operations every field
\* lies within its page: 0 <= x, 0 <= y, x + width <= 1, y + height <= 1.
C26_WithinPage ==
  \A i \in DOMAIN fields :
    /\ FLeq(Zero, fields[i].x)
    /\ FLeq(Zero, fields[i].y)
    /\ FLeq(FAdd(fields[i].x, fields[i].width), FInt(1))
    /\ FLeq(FAdd(fields[i].y, fields[i].height), FInt(1))

\* the field the resize in progress acts on, as it is in the store
ResizingField == FindField(fields, gesture.fieldId)

\* width >= 0.05, height >= 0.03, x >= 0 and y >= 0 for every field
MinimumSize ==
  \A i \in DOMAIN fields :
    /\ FLeq(Dec(5, 100), fields[i].width)
    /\ FLeq(Dec(3, 100), fields[i].height)
    /\ FLeq(Zero, fields[i].x)
    /\ FLeq(Zero, fields[i].y)

\* C27: after any sequence of place and resize operations on any corner
\* every field keeps width >= 0.05 and height >= 0.03 and x, y >= 0, and
\* during a resize from the left or the top the right edge x + width or the
\* bottom edge y + height of the field is exactly where it was at the mouse
\* press.
C27_FarEdgeFixed ==
  /\ MinimumSize
  /\ gesture.kind = "resize" =>
       /\ Includes(gesture.corner, "left") =>
            FAdd(ResizingField.x, ResizingField.width)
              = FAdd(gesture.startField.x, gesture.startField.width)
       /\ Includes(gesture.corner, "top") =>
            FAdd(ResizingField.y, ResizingField.height)
              = FAdd(gesture.startField.y, gesture.startField.height)

\* |a - b| <= 2^-40
Close(a, b) == FLeq(FAbs(FSub(a, b)), FScale(FInt(1), -40))

\* C27 (amended): every field keeps width >= 0.05, height >= 0.03 and
\* x, y >= 0, and during a resize from the left or the top the right or
\* bottom edge of the field stays where it was at the mouse press up to the
\* rounding of the floating-point additions (within 2^-40).
C27_FarEdgeWithinRounding ==
  /\ MinimumSize
  /\ gesture.kind = "resize" =>
       /\ Includes(gesture.corner, "left") =>
            Close(FAdd(ResizingField.x, ResizingField.width),
                  FAdd(gesture.startField.x, gesture.startField.width))
       /\ Includes(gesture.corner, "top") =>
            Close(FAdd(ResizingField.y, ResizingField.height),
                  FAdd(gesture.startField.y, gesture.startField.height))

\* C27 witness: a resize from the top left corner has moved both the left
\* and the top edge of the field.
C27_Witness ==
  /\ gesture.kind = "resize"
  /\ gesture.corner = "top-left"
  /\ ResizingField.x # gesture.startField.x
  /\ ResizingField.y # gesture.startField.y

\* ------------------------------------------------------------------------
\* Properties of the edits of the field store (checked under SpecStore)
\* ------------------------------------------------------------------------

\* a step that appends one new field to the store
PlacesField ==
  /\ Len(fields') = Len(fields) + 1
  /\ SubSeq(fields', 1, Len(fields)) = fields

\* a step that replaces only the fields with one id: the number and order
\* of the fields is preserved and every other field is unchanged
EditsOneField ==
  /\ Len(fields') = Len(fields)
  /\ \E i \in DOMAIN fields :
       \A j \in DOMAIN fields :
         /\ fields'[j].id = fields[j].id
         /\ fields[j].id # fields[i].id => fields'[j] = fields[j]

\* a step that removes exactly the fields with one id, keeps the others in
\* order and clears the selection
DeletesOneField ==
  /\ selectedField' = 0
  /\ \E i \in DOMAIN fields :
       fields' = SelectSeq(fields, LAMBDA f : f.id # fields[i].id)

\* C23: every edit of the field store (value change, checkbox or radio
\* toggle, drag move, resize move, image value set) replaces only the field
\* with the matching id, preserving the number and order of the fields and
\* every field with another id, and deleteField removes exactly the field
\* with the given id, keeps the others in order and clears the selection:
\* every step that changes the store places a field, edits one field or
\* deletes one field.
C23_EditsOneField ==
  [][fields' # fields => (PlacesField \/ EditsOneField \/ DeletesOneField)]_vars

\* C28: when the read of an uploaded image completes, it sets the value of
\* the target image field and loses nothing: the store after the step is
\* the store before it with the image data as the value of the field
\* currentImageFieldRef names.
C28_ReadLosesNothing ==
  [][Cardinality(reads') < Cardinality(reads) =>
       fields' = [i \in DOMAIN fields |->
                    IF fields[i].id = currentImageField
                    THEN [fields[i] EXCEPT !.value = "data:image/png"]
                    ELSE fields[i]]]_vars

\* ------------------------------------------------------------------------
\* Properties of zooming (checked under SpecZoom)
\* ------------------------------------------------------------------------

\* C29: after any sequence of zoom-in and zoom-out clicks, once all
\* outstanding page renders have completed, the pages on display are the
\* ones rendered at the current scale.
C29_PagesAtCurrentScale ==
  (renders = {} /\ pages # <<>>) => pages[1].scale = zoomScale

\* ------------------------------------------------------------------------
\* Properties of the Sign PDF button (checked under SpecSign)
\* ------------------------------------------------------------------------

\* C30: the frontend sends a /sign-pdf request only when a signature has
\* been drawn, at least one signature field is placed and PDF data is
\* loaded; while a request is in flight isSigning is true (the button is
\* disabled), so at most one request is in flight; and the step in which
\* the request is answered (success, error answer or failure to connect)
\* sets isSigning back to false.
C30_OneRequestAtATime ==
  /\ [](Cardinality(sent) <= 1 /\ (sent # {} => isSigning))
  /\ [][/\ sent' # sent /\ sent' # {} =>
            /\ signatureData
            /\ signatureFields # <<>>
            /\ pdfDataForBackend
            /\ ~isSigning
        /\ sent # {} /\ sent' = {} => ~isSigning'
       ]_vars

\* C30 witness: a request with a signature field and a text field is in
\* flight.
C30_Witness ==
  /\ sent # {}
  /\ isSigning
  /\ \E request \in sent :
       /\ Len(request.allFields) = 2
       /\ Len(request.coordinates) = 1

====
